---------------------------- MODULE Spec2Model ----------------------------
(***************************************************************************)
(* Scan-lifecycle subsystem of the AgentLISA editor extension              *)
(* (ScanService in src/src/models/index.ts): scan submission, the per-scan *)
(* polling loops, timeout and completion handling, and the Result Store    *)
(* with its retention cap and its mirror in workspace storage; and the      *)
(* OAuth authenticator (AuthService in src/unnamed/part_001): discovery,   *)
(* the loopback redirect listener, code exchange, refresh and logout.      *)
(* The two services have a specification each: Spec runs ScanService with  *)
(* the authenticator abstracted to the outcome of getAccessToken, AuthSpec *)
(* runs AuthService alone.  DiscoverySpec runs AuthService with            *)
(* clearConfigCache() and a listener no request reaches; AttemptSpec runs  *)
(* the attempts of authenticate() alone, with the fairness that lets them  *)
(* go on.  QuerySpec evaluates isAuthenticated on drawn token states, and  *)
(* TextSpec applies the pure text functions of ScanService                 *)
(* (generateScanTitle, the summary of handleScanCompletion) to drawn       *)
(* arguments.                                                              *)
(*                                                                         *)
(* The event loop is single-threaded: every action below is one run of     *)
(* synchronous code between two suspension points (an await or a timer).   *)
(* Awaits between which the code touches nothing but its own locals are    *)
(* taken in one step (the file reads of startScan, response.json()).       *)
(***************************************************************************)
EXTENDS Integers, Sequences, FiniteSets, TLC

(***************************************************************************)
(* Bounds of the model and program constants.                              *)
(***************************************************************************)
\* ScanService.MAX_STORED_RESULTS
MAX_STORED_RESULTS == 20
\* number of startPolling closures (successful startScan calls) of a run
MaxLoops == 2
\* createdAt values (times read from a clock) are 0..MaxCreatedAt
MaxCreatedAt == 1
\* longest candidate file list given to startScan
MaxFiles == 2
\* user commands (startScan, removeScanResult, removeAllScanResults) in flight
MaxCommands == 1

\* longest file list given to generateScanTitle
MaxTitleFiles == 3
\* most issues in the result handed to handleScanCompletion
MaxIssues == 3

\* AuthService calls (getAccessToken, authenticate, logout) in flight
MaxAuthCalls == 2
\* Date.now() advances in steps of ClockStep, at most MaxTicks times
MaxTicks == 2

\* scan ids the remote create-scan endpoint hands out
ScanIds == {1, 2}
Statuses == {"pending", "processing", "completed", "failed", "cancelled"}
TerminalStatuses == {"completed", "failed", "cancelled"}
NoTimer == 0
LoopIds == 1..MaxLoops

(***************************************************************************)
(* State.                                                                  *)
(***************************************************************************)
VARIABLES
  scanResults,  \* this.scanResults: Map in insertion order, a sequence of records
  stored,       \* workspaceState[STORAGE_KEY]
  activeScans,  \* this.activeScans: scan id -> timer handle (NoTimer: no entry)
  loops,        \* the poll closures made by startPolling, with their timers
  storageOk,    \* whether workspaceState reads and writes succeed in this session
  sc,           \* the startScan call in flight
  rm,           \* the removeScanResult call in flight
  ra,           \* the removeAllScanResults call in flight
  disposed,     \* dispose() has run
  ret,          \* what the step just taken returned or threw to its caller
  hist,         \* removed: the closures whose scan a removeScanResult that returned
                \* true has removed, and that have sent no status request since
  tokens,          \* AuthService.tokens
  globalState,     \* context.globalState[STORAGE_KEY]
  wellKnownConfig, \* AuthService.wellKnownConfig
  now,             \* Date.now()
  authCalls,       \* the AuthService calls in flight
  authRet,         \* what the AuthService step just taken returned to its caller
  arg,             \* the arguments of the generateScanTitle or handleScanCompletion call
  out              \* what that call returned, or showed to the user

scanVars == <<scanResults, stored, activeScans, loops, storageOk, sc, rm, ra,
              disposed, ret, hist>>
authVars == <<tokens, globalState, wellKnownConfig, now, authCalls, authRet>>
textVars == <<arg, out>>
vars == <<scanVars, authVars, textVars>>

(***************************************************************************)
(* ScanResult records.  createdAt is the value of                          *)
(* new Date(createdAt).getTime(); result is the number of issues; obj      *)
(* names the poll closure that still holds a reference to this very        *)
(* object (0: none), since handleScanTimeout mutates the stored object.    *)
(***************************************************************************)
ScanResult(key, id, createdAt, status, result, codeSummary, obj) ==
  [key |-> key, id |-> id, createdAt |-> createdAt, status |-> status,
   result |-> result, codeSummary |-> codeSummary, obj |-> obj]

NoResult == [key |-> 0, id |-> 0, createdAt |-> 0, status |-> "none",
             result |-> 0, codeSummary |-> "null", obj |-> 0]

Keys(m) == {m[i].key : i \in 1..Len(m)}
Has(m, key) == \E i \in 1..Len(m) : m[i].key = key
IndexOf(m, key) == CHOOSE i \in 1..Len(m) : m[i].key = key
Get(m, key) == IF Has(m, key) THEN m[IndexOf(m, key)] ELSE NoResult

\* Map.prototype.set: overwrite in place, or append
MapSet(m, key, rec) ==
  IF Has(m, key) THEN [m EXCEPT ![IndexOf(m, key)] = rec] ELSE Append(m, rec)

\* Map.prototype.delete
MapDelete(m, key) == SelectSeq(m, LAMBDA r : r.key # key)

(***************************************************************************)
(* Retention and persistence.                                              *)
(***************************************************************************)
\* Array.prototype.sort is stable: a record goes behind the records that
\* compare equal to it (b.createdAt - a.createdAt = 0)
InsertStable(s, r) ==
  LET k == Cardinality({i \in 1..Len(s) : s[i].createdAt >= r.createdAt})
  IN  SubSeq(s, 1, k) \o <<r>> \o SubSeq(s, k + 1, Len(s))

RECURSIVE SortNewestFirst(_)
SortNewestFirst(m) ==
  IF m = <<>> THEN <<>>
  ELSE InsertStable(SortNewestFirst(SubSeq(m, 1, Len(m) - 1)), m[Len(m)])

\* a cap that keeps the first MAX_STORED_RESULTS records in insertion order,
\* without the sort
cleanupKeepsFirst(m) ==
  IF Len(m) <= MAX_STORED_RESULTS THEN m ELSE SubSeq(m, 1, MAX_STORED_RESULTS)

\* cleanupOldResults(): keep the MAX_STORED_RESULTS newest, in sorted order
cleanupOldResults(m) ==
  IF Len(m) <= MAX_STORED_RESULTS THEN m
  ELSE SubSeq(SortNewestFirst(m), 1, MAX_STORED_RESULTS)

\* the plain object handed to workspaceState.update (stored as a JSON copy)
resultsToStore(m) == [i \in 1..Len(m) |-> [m[i] EXCEPT !.obj = 0]]

\* saveScanResults(), up to its await: the map after cleanup, and the
\* storage after workspaceState.update (a failed write is caught and logged)
saveScanResultsMap(m) == cleanupOldResults(m)
saveScanResultsStore(m, st, writeOk) ==
  IF writeOk THEN resultsToStore(cleanupOldResults(m)) ELSE st

\* a saveScanResults without its catch: a failed write rejects the promise
saveScanResultsRethrows(writeOk) == IF writeOk THEN "resolved" ELSE "rejected"

\* saveScanResults(), its await over: the catch has logged a failed write, and
\* the promise the callers await resolves either way
saveScanResultsSettles(writeOk) == "resolved"

\* loadScanResults(): the constructor's load, with its defensive cleanup; a
\* failed read is caught and leaves the map empty
loadScanResults(st, readOk) == IF readOk THEN cleanupOldResults(st) ELSE <<>>

(***************************************************************************)
(* Timers and the activeScans map.  A closure has at most one timer        *)
(* pending, so the closure's index stands for the handle of its timer.     *)
(***************************************************************************)
\* A closure is a record: pc is where it is suspended, id its scanId, status
\* the result.status it holds while it saves, and seen what it has observed
\* since its last status request that should end its polling ("terminal": a
\* terminal status in the response, "timeout": its timeout).
FreeLoop == [pc |-> "free", id |-> 0, seen |-> "none", status |-> "none"]

\* a poll closure that will never run again: its timer was cleared, or its
\* tick returned without scheduling another
Ended == [pc |-> "ended", id |-> 0, seen |-> "none", status |-> "none"]

\* clearTimeout(h): cancels the timer of closure h if it is still pending
clearTimeout(ls, h) ==
  IF h # NoTimer /\ ls[h].pc = "timer" THEN [ls EXCEPT ![h] = Ended] ELSE ls

\* stopPolling(scanId): effect on the timers and on activeScans
stopPollingLoops(ls, as, scanId) ==
  IF scanId \in DOMAIN as THEN clearTimeout(ls, as[scanId]) ELSE ls
stopPollingActive(as, scanId) ==
  IF scanId \in DOMAIN as THEN [as EXCEPT ![scanId] = NoTimer] ELSE as

\* scheduleNextPoll(scanId, poll) called by closure h
scheduleNextPollLoops(ls, h) ==
  [ls EXCEPT ![h] = [@ EXCEPT !.pc = "timer", !.status = "none"]]
scheduleNextPollActive(as, scanId, h) == [as EXCEPT ![scanId] = h]

\* the closures that can still run
Live(ls) == {h \in LoopIds : ls[h].pc \notin {"free", "ended"}}

\* the removed set keeps live closures only
Trim(hs, ls) == [removed |-> hs.removed \cap Live(ls)]

(***************************************************************************)
(* AuthService values.  Times are milliseconds, as Date.now() gives them;  *)
(* a string that is "" stands for an absent (undefined) property, which    *)
(* the code tests by truthiness; "null" stands for null.                   *)
(***************************************************************************)
\* AuthService.CALLBACK_PORTS, primary then fallback
CALLBACK_PORTS == <<7154, 47154>>
\* isTokenExpiringSoon: const fiveMinutesInMs = 1 * 60 * 1000
fiveMinutesInMs == 60000
ClockStep == fiveMinutesInMs \div 2
MaxNow == MaxTicks * ClockStep
\* expires_in of a token response, in seconds
ExpiresIn == {30, 90}

AuthTokens(accessToken, refreshToken, expiresAt) ==
  [accessToken |-> accessToken, refreshToken |-> refreshToken, expiresAt |-> expiresAt]
NoTokens == AuthTokens("null", "", 0)

\* token sets an earlier session may have left in globalState
StoredTokens == {NoTokens, AuthTokens("a1", "r1", 90 * 1000)}

OAuthWellKnownConfig(servers) == [fetched |-> TRUE, authorization_servers |-> servers]
NoConfig == [fetched |-> FALSE, authorization_servers |-> <<>>]

AuthCallIds == 1..MaxAuthCalls
\* op: the public method called; pc: the await the call is suspended at; state:
\* the state parameter it generated; portIndex, port: the port being tried and
\* the port bound; wrote: what of this.tokens and globalState the authenticate()
\* or refreshAccessToken() it is running has assigned; armed: the handlers of its
\* listener that can still run ("timer": the 5-minute timer, "cancel": the then
\* of the notification with its Cancel button, "connection": the request handler
\* on a connection the closed listener keeps), followed until the call returns;
\* authServer, codeVerifier, codeChallenge: the locals of authenticate(); authUrl:
\* the URL its listener opened in the browser
NoUrl ==
  [authServer |-> "", path |-> "", redirect_uri |-> "", state |-> 0, code_challenge |-> "",
   code_challenge_method |-> ""]
IdleAuthCall ==
  [op |-> "none", pc |-> "idle", state |-> 0, portIndex |-> 0, port |-> 0, wrote |-> {},
   armed |-> {}, authServer |-> "", codeVerifier |-> "", codeChallenge |-> "",
   authUrl |-> NoUrl]
\* a request to the listener: path is url.pathname; code and error as
\* searchParams.get gives them ("null": no such parameter, "": an empty one; for
\* code the two are alike), state the returned state (0: none)
NoRequest == [path |-> "/callback", code |-> "", state |-> 0, error |-> "null"]
\* call: the call that ran in the step; op, value: the method that returned in it
\* and its value, with the call's wrote; did: the effects of the
\* step, in order; req: the request the step served; sent: the token request
\* exchangeCodeForTokens sent in the step
NoTokenRequest ==
  [authServer |-> "", path |-> "", grant_type |-> "", code |-> "", redirect_uri |-> "",
   code_verifier |-> ""]
NoAuthReturn ==
  [op |-> "none", call |-> 0, value |-> "none", wrote |-> {}, did |-> <<>>, req |-> NoRequest,
   sent |-> NoTokenRequest]

\* loadTokensFromStorage
loadTokensFromStorage(st) == st

\* no call of generateScanTitle or handleScanCompletion made
NoText == [op |-> "none"]

(***************************************************************************)
(* Initial state: the state after the constructor, which loads the         *)
(* workspace storage left by earlier sessions.                             *)
(***************************************************************************)
Filler(k, createdAt) ==
  ScanResult(MAX_STORED_RESULTS + k, MAX_STORED_RESULTS + k, createdAt, "completed", 0, "null", 0)

\* more records than the cap, written before the cap existed
OverfullStore == [k \in 1..(MAX_STORED_RESULTS + 2) |-> Filler(k, k % (MaxCreatedAt + 1))]

\* workspace storage contents found at activation
Preloads == {<<>>, OverfullStore}

IdleCall == [pc |-> "idle", uris |-> <<>>, files |-> <<>>, warned |-> 0, scanResult |-> NoResult]
IdleRemove == [pc |-> "idle", id |-> 0, victims |-> {}]
\* count: const count = this.scanResults.size of removeAllScanResults
IdleRemoveAll == [pc |-> "idle", count |-> 0]
\* notified: the step has called onScanUpdateCallback
NoReturn == [op |-> "none", id |-> 0, value |-> "none", notified |-> FALSE]
Returned(op, id, value) == [op |-> op, id |-> id, value |-> value, notified |-> FALSE]
\* this.onScanUpdateCallback?.() was called in the step that returns r
Notified(r) == [r EXCEPT !.notified = TRUE]
NoHist == [removed |-> {}]

Init ==
  /\ \E ok \in BOOLEAN :
        /\ storageOk = ok
        /\ stored \in (IF ok THEN Preloads ELSE {<<>>})
        /\ scanResults = loadScanResults(stored, ok)
  /\ activeScans = [id \in ScanIds |-> NoTimer]
  /\ loops = [h \in LoopIds |-> FreeLoop]
  /\ sc = IdleCall
  /\ rm = IdleRemove
  /\ ra = IdleRemoveAll
  /\ disposed = FALSE
  /\ ret = NoReturn
  /\ hist = NoHist
  /\ tokens = NoTokens
  /\ globalState = NoTokens
  /\ wellKnownConfig = NoConfig
  /\ now = 0
  /\ authCalls = [c \in AuthCallIds |-> IdleAuthCall]
  /\ authRet = NoAuthReturn
  /\ arg = NoText
  /\ out = NoText

(***************************************************************************)
(* startScan(fileUris, metadata)                                           *)
(***************************************************************************)
\* candidate file lists: TRUE marks a file that fs.promises.readFile can read
UriLists == UNION {[1..n -> BOOLEAN] : n \in 0..MaxFiles}

\* a file loop that pushes every uri, readable or not
readFilesAll(uris, n) == [i \in 1..n |-> i]

\* the file loop over the first n uris: the files pushed (by their index in
\* fileUris), a rejected read pushing nothing
RECURSIVE readFiles(_, _)
readFiles(uris, n) ==
  IF n = 0 THEN <<>>
  ELSE IF uris[n] THEN Append(readFiles(uris, n - 1), n)
  ELSE readFiles(uris, n - 1)

\* the showWarningMessage calls of the file loop
readWarnings(uris) == Cardinality({i \in 1..Len(uris) : ~uris[i]})

\* files.length === 0
noValidFiles(files) == Len(files) = 0

\* number of user commands in flight
InFlight == (IF sc.pc = "idle" THEN 0 ELSE 1) + (IF rm.pc = "idle" THEN 0 ELSE 1)
            + (IF ra.pc = "idle" THEN 0 ELSE 1)

\* a command can be issued
CanCall == ~disposed /\ InFlight < MaxCommands

\* startScan(fileUris) is called and awaits authService.getAccessToken()
StartScanCall ==
  /\ CanCall
  /\ sc.pc = "idle"
  /\ \E h \in LoopIds : loops[h].pc = "free"
  /\ \E uris \in UriLists : sc' = [IdleCall EXCEPT !.pc = "token", !.uris = uris]
  /\ ret' = NoReturn
  /\ UNCHANGED <<scanResults, stored, activeScans, loops, storageOk, rm, ra,
                 disposed, hist>>
  /\ UNCHANGED <<authVars, textVars>>

\* the file loop over fileUris, then the throw of "No valid files to scan"
\* or the POST to /api/v1/scan
StartScanFiles(uris) ==
  LET files == readFiles(uris, Len(uris))
  IN  IF noValidFiles(files)
      THEN /\ sc' = IdleCall
           /\ ret' = Returned("startScan", 0, "No valid files to scan")
      ELSE /\ sc' = [sc EXCEPT !.pc = "create", !.uris = uris, !.files = files,
                               !.warned = readWarnings(uris)]
           /\ ret' = NoReturn

\* getAccessToken() resolves: null throws "Not authenticated", a token
\* starts the file loop
StartScanToken ==
  /\ sc.pc = "token"
  /\ \E accessToken \in BOOLEAN :
        IF accessToken THEN StartScanFiles(sc.uris)
        ELSE sc' = IdleCall /\ ret' = Returned("startScan", 0, "Not authenticated")
  /\ UNCHANGED <<scanResults, stored, activeScans, loops, storageOk, rm, ra,
                 disposed, hist>>
  /\ UNCHANGED <<authVars, textVars>>

\* statuses of a create response
CreateStatuses == {"pending", "processing"}

\* the scanId of a create response: the service numbers its scans in order,
\* and may repeat an id it gave before
CreatedIds == {id \in ScanIds : id <= Cardinality({h \in LoopIds : loops[h].pc # "free"}) + 1}

\* what new Date() reads off the system clock
ClockValues == 0..MaxCreatedAt

\* the record startScan builds from a success response
NewScanResult(scanId, status, date) == ScanResult(scanId, scanId, date, status, 0, "null", 0)

\* scanResults.set(scanId, scanResult) and saveScanResults() up to its await
StartScanInsert(scanId, status, date) ==
  /\ sc' = [IdleCall EXCEPT !.pc = "save", !.scanResult = NewScanResult(scanId, status, date)]
  /\ scanResults' = saveScanResultsMap(
                       MapSet(scanResults, scanId, NewScanResult(scanId, status, date)))
  /\ stored' = saveScanResultsStore(
                  MapSet(scanResults, scanId, NewScanResult(scanId, status, date)),
                  stored, storageOk)
  /\ ret' = NoReturn

\* a startScan that stores the record before it looks at the response, and
\* leaves it behind when the response is a failure
StartScanResponseKeepsRecord ==
  /\ sc.pc = "create"
  /\ \E scanId \in CreatedIds, status \in CreateStatuses, date \in ClockValues :
        /\ scanResults' = saveScanResultsMap(
                             MapSet(scanResults, scanId, NewScanResult(scanId, status, date)))
        /\ stored' = saveScanResultsStore(
                        MapSet(scanResults, scanId, NewScanResult(scanId, status, date)),
                        stored, storageOk)
  /\ sc' = IdleCall
  /\ ret' = Returned("startScan", 0, "Scan failed")
  /\ UNCHANGED <<activeScans, loops, storageOk, rm, ra, disposed, hist>>
  /\ UNCHANGED <<authVars, textVars>>

\* the POST rejects, or resolves with a non-success HTTP status, a
\* success:false body or a success body
StartScanResponse ==
  /\ sc.pc = "create"
  /\ \/ /\ \E e \in {"fetch failed", "HTTP error", "Scan failed"} :
              ret' = Returned("startScan", 0, e)
        /\ sc' = IdleCall
        /\ UNCHANGED <<scanResults, stored>>
     \/ \E scanId \in CreatedIds, status \in CreateStatuses, date \in ClockValues :
           StartScanInsert(scanId, status, date)
  /\ UNCHANGED <<activeScans, loops, storageOk, rm, ra, disposed, hist>>
  /\ UNCHANGED <<authVars, textVars>>

\* startPolling(scanId): a new closure with startTime = Date.now(), whose
\* first timer replaces the activeScans entry of scanId
startPollingLoops(ls, h, scanId) ==
  [ls EXCEPT ![h] = [pc |-> "timer", id |-> scanId, seen |-> "none", status |-> "none"]]

\* the closure the next startPolling makes
NewLoop == CHOOSE x \in LoopIds :
              loops[x].pc = "free" /\ \A y \in LoopIds : loops[y].pc = "free" => x <= y

\* saveScanResults() resolved: startPolling(scanId), return scanId
StartScanReturn ==
  /\ sc.pc = "save"
  /\ IF saveScanResultsSettles(storageOk) = "rejected"
     THEN /\ ret' = Returned("startScan", 0, "storage error")
          /\ UNCHANGED <<loops, activeScans>>
     ELSE /\ loops' = startPollingLoops(loops, NewLoop, sc.scanResult.id)
          /\ activeScans' = scheduleNextPollActive(activeScans, sc.scanResult.id, NewLoop)
          /\ ret' = Returned("startScan", sc.scanResult.id, "scanId")
  /\ sc' = IdleCall
  /\ UNCHANGED <<scanResults, stored, storageOk, rm, ra, disposed, hist>>
  /\ UNCHANGED <<authVars, textVars>>

(***************************************************************************)
(* The poll closure of startPolling(scanId), one action per run between    *)
(* two suspension points.  h is the closure; loops[h].id its scanId.       *)
(***************************************************************************)
\* the closure h is executing: its timer has fired and is no longer pending
Running(ls, h) == [ls EXCEPT ![h] = [@ EXCEPT !.pc = "run"]]

\* Date.now() - startTime > this.getPollingTimeout(), as the clock decides
\* it when the tick starts: a closure that has seen its timeout sees it on
\* every later tick, and so does every closure started before it
timedOut(ls, h) ==
  IF ls[h].seen = "timeout" \/ \E g \in Live(ls) : g > h /\ ls[g].seen = "timeout"
  THEN {TRUE} ELSE BOOLEAN

\* the status test of handleScanTimeout
stillRunning(m, scanId) ==
  Has(m, scanId) /\ Get(m, scanId).status \notin TerminalStatuses

\* result.status = "failed"; result.codeSummary = ...: the stored object is
\* changed in place
markTimedOut(rec) == [rec EXCEPT !.status = "failed", !.codeSummary = "timed out"]

\* a closure suspended in its saveScanResults() holds the object it stored
\* (loops[g].status is its result.status) and sees it change
aliasTimedOut(ls, rec) ==
  [g \in LoopIds |->
     IF ls[g].pc = "save" /\ rec.obj = g
     THEN [ls[g] EXCEPT !.status = markTimedOut(rec).status] ELSE ls[g]]

\* handleScanTimeout(scanId), up to its await of saveScanResults(), or to
\* its return when there is nothing to mark
PollTimeout(h) ==
  LET id  == loops[h].id
      ls1 == stopPollingLoops(Running(loops, h), activeScans, id)
      rec == Get(scanResults, id)
      m1  == MapSet(scanResults, id, markTimedOut(rec))
  IN  /\ activeScans' = stopPollingActive(activeScans, id)
      /\ IF stillRunning(scanResults, id)
         THEN /\ scanResults' = saveScanResultsMap(m1)
              /\ stored' = saveScanResultsStore(m1, stored, storageOk)
              /\ loops' = [aliasTimedOut(ls1, rec) EXCEPT
                             ![h] = [@ EXCEPT !.pc = "timeoutSave", !.seen = "timeout"]]
         ELSE /\ loops' = [ls1 EXCEPT ![h] = Ended]
              /\ UNCHANGED <<scanResults, stored>>
      /\ hist' = Trim(hist, loops')

\* the timer fires and poll() runs: timeout handling, or fetchScanStatus up
\* to its await of getAccessToken()
PollTimer(h) ==
  /\ loops[h].pc = "timer"
  /\ \E elapsed \in timedOut(loops, h) :
        IF elapsed
        THEN PollTimeout(h)
        ELSE /\ loops' = [loops EXCEPT ![h] = [@ EXCEPT !.pc = "token"]]
             /\ UNCHANGED <<scanResults, stored, activeScans, hist>>
  /\ ret' = NoReturn
  /\ UNCHANGED <<storageOk, sc, rm, ra, disposed>>
  /\ UNCHANGED <<authVars, textVars>>

\* fetchScanStatus returned null: poll returns
fetchFailed(ls, h) == [ls EXCEPT ![h] = Ended]

\* getAccessToken() resolves: with a token the GET /api/v1/scan/{id} is
\* sent, without one fetchScanStatus catches its own throw and returns null
\* (a request sent starts a new observation: seen and the removed mark of
\* the closure are reset)
PollToken(h) ==
  /\ loops[h].pc = "token"
  /\ \E accessToken \in BOOLEAN :
        loops' = IF accessToken
                 THEN [loops EXCEPT ![h] = [@ EXCEPT !.pc = "fetch", !.seen = "none"]]
                 ELSE fetchFailed(loops, h)
  /\ hist' = Trim([hist EXCEPT !.removed = @ \ {h}], loops')
  /\ ret' = NoReturn
  /\ UNCHANGED <<scanResults, stored, activeScans, storageOk, sc, rm, ra, disposed>>
  /\ UNCHANGED <<authVars, textVars>>

\* what the remote service reports for a scan
ServerCreatedAt == {0}
ServerStatuses == {"processing", "completed", "cancelled"}
ServerIssues(status) == IF status = "completed" THEN 1 ELSE 0
ServerData(scanId) ==
  {[id |-> scanId, createdAt |-> c, status |-> st, result |-> ServerIssues(st)] :
     c \in ServerCreatedAt, st \in ServerStatuses}

\* the object fetchScanStatus builds from the response body
FetchedResult(scanId, data, h) ==
  ScanResult(scanId, data.id, data.createdAt, data.status, data.result, "null", h)

\* what the closure has seen that should end its polling: a terminal
\* status in a response, or its timeout
observe(seen, status) == IF status \in TerminalStatuses THEN "terminal" ELSE seen

\* this.scanResults.set(scanId, result) and saveScanResults() up to its await
PollStore(h, data) ==
  LET id     == loops[h].id
      result == FetchedResult(id, data, h)
      m1     == MapSet(scanResults, id, result)
  IN  /\ scanResults' = saveScanResultsMap(m1)
      /\ stored' = saveScanResultsStore(m1, stored, storageOk)
      /\ loops' = [loops EXCEPT ![h] = [@ EXCEPT !.pc = "save", !.status = result.status,
                                               !.seen = observe(@, result.status)]]
      /\ UNCHANGED hist

\* the GET rejects, carries a non-success status or an unparsable body
\* (fetchScanStatus returns null), or carries the scan
PollResponse(h) ==
  /\ loops[h].pc = "fetch"
  /\ \/ /\ loops' = fetchFailed(loops, h)
        /\ hist' = Trim(hist, loops')
        /\ UNCHANGED <<scanResults, stored>>
     \/ \E data \in ServerData(loops[h].id) : PollStore(h, data)
  /\ ret' = NoReturn
  /\ UNCHANGED <<activeScans, storageOk, sc, rm, ra, disposed>>
  /\ UNCHANGED <<authVars, textVars>>

\* the closure h no longer holds the object it stored
dropAlias(m, h) == [i \in 1..Len(m) |-> IF m[i].obj = h THEN [m[i] EXCEPT !.obj = 0] ELSE m[i]]

\* the catch of poll: the error is logged and the next poll scheduled
PollCatch(h) ==
  /\ loops' = scheduleNextPollLoops(loops, h)
  /\ activeScans' = scheduleNextPollActive(activeScans, loops[h].id, h)

\* result.status is one of completed, failed, cancelled
isTerminal(status) == status \in TerminalStatuses

\* stopPolling(scanId) and handleScanCompletion(result) up to its await of
\* showInformationMessage (completed) or to its return
PollComplete(h) ==
  LET ls1 == stopPollingLoops(Running(loops, h), activeScans, loops[h].id)
  IN  /\ activeScans' = stopPollingActive(activeScans, loops[h].id)
      /\ loops' = IF loops[h].status = "completed"
                  THEN [ls1 EXCEPT ![h] = [@ EXCEPT !.pc = "notify", !.status = "none"]]
                  ELSE [ls1 EXCEPT ![h] = Ended]

\* saveScanResults() resolved in poll: the callback, then stop or reschedule
PollSaved(h) ==
  /\ loops[h].pc = "save"
  /\ IF saveScanResultsSettles(storageOk) = "rejected"
     THEN PollCatch(h) /\ ret' = NoReturn
     ELSE /\ \E callbackThrows \in BOOLEAN :
                CASE callbackThrows -> PollCatch(h)
                  [] ~callbackThrows /\ isTerminal(loops[h].status) -> PollComplete(h)
                  [] OTHER -> PollCatch(h)
          /\ ret' = Notified(NoReturn)
  /\ scanResults' = dropAlias(scanResults, h)
  /\ hist' = Trim(hist, loops')
  /\ UNCHANGED <<stored, storageOk, sc, rm, ra, disposed>>
  /\ UNCHANGED <<authVars, textVars>>

\* handleScanCompletion: showInformationMessage resolves and the tick ends,
\* or it rejects and the catch of poll schedules the next poll
PollNotified(h) ==
  /\ loops[h].pc = "notify"
  /\ \E rejected \in BOOLEAN :
        IF rejected THEN PollCatch(h)
        ELSE loops' = [loops EXCEPT ![h] = Ended] /\ UNCHANGED activeScans
  /\ hist' = Trim(hist, loops')
  /\ ret' = NoReturn
  /\ UNCHANGED <<scanResults, stored, storageOk, sc, rm, ra, disposed>>
  /\ UNCHANGED <<authVars, textVars>>

\* saveScanResults() resolved in handleScanTimeout: the callback and the
\* warning; a throwing callback reaches the catch of poll
PollTimeoutSaved(h) ==
  /\ loops[h].pc = "timeoutSave"
  /\ IF saveScanResultsSettles(storageOk) = "rejected"
     THEN PollCatch(h) /\ ret' = NoReturn
     ELSE /\ \E callbackThrows \in BOOLEAN :
                IF callbackThrows THEN PollCatch(h)
                ELSE loops' = [loops EXCEPT ![h] = Ended] /\ UNCHANGED activeScans
          /\ ret' = Notified(NoReturn)
  /\ hist' = Trim(hist, loops')
  /\ UNCHANGED <<scanResults, stored, storageOk, sc, rm, ra, disposed>>
  /\ UNCHANGED <<authVars, textVars>>

(***************************************************************************)
(* removeScanResult, removeAllScanResults, dispose                         *)
(***************************************************************************)
\* ids the user asks to remove
RemoveIds == ScanIds

\* the closures polling scanId that are still alive
Pollers(ls, scanId) == {h \in Live(ls) : ls[h].id = scanId}

\* removeScanResult(scanId) up to its await of saveScanResults(), or to its
\* return of false
RemoveCall(scanId) ==
  /\ CanCall
  /\ rm.pc = "idle"
  /\ IF Has(scanResults, scanId)
     THEN /\ loops' = stopPollingLoops(loops, activeScans, scanId)
          /\ activeScans' = stopPollingActive(activeScans, scanId)
          /\ scanResults' = saveScanResultsMap(MapDelete(scanResults, scanId))
          /\ stored' = saveScanResultsStore(MapDelete(scanResults, scanId), stored, storageOk)
          /\ rm' = [pc |-> "save", id |-> scanId, victims |-> Pollers(loops', scanId)]
          /\ ret' = NoReturn
     ELSE /\ ret' = Returned("removeScanResult", scanId, "false")
          /\ UNCHANGED <<loops, activeScans, scanResults, stored, rm>>
  /\ hist' = Trim(hist, loops')
  /\ UNCHANGED <<storageOk, sc, ra, disposed>>
  /\ UNCHANGED <<authVars, textVars>>

\* saveScanResults() resolved: the callback, then return true
RemoveSaved ==
  /\ rm.pc = "save"
  /\ rm' = IdleRemove
  /\ IF saveScanResultsSettles(storageOk) = "rejected"
     THEN ret' = Returned("removeScanResult", rm.id, "storage error") /\ UNCHANGED hist
     ELSE \E callbackThrows \in BOOLEAN :
            IF callbackThrows
            THEN /\ ret' = Notified(Returned("removeScanResult", rm.id, "callback threw"))
                 /\ UNCHANGED hist
            ELSE /\ ret' = Notified(Returned("removeScanResult", rm.id, "true"))
                 /\ hist' = Trim([hist EXCEPT !.removed = @ \cup rm.victims], loops)
  /\ UNCHANGED <<scanResults, stored, activeScans, loops, storageOk, sc, ra, disposed>>
  /\ UNCHANGED <<authVars, textVars>>

\* removeAllScanResults() up to its await: stopPolling for every key of the
\* map, clear, saveScanResults()
RemoveAllCall ==
  /\ CanCall
  /\ ra.pc = "idle"
  /\ loops' = [h \in LoopIds |->
                 IF \E id \in ScanIds : Has(scanResults, id) /\ activeScans[id] = h
                 THEN clearTimeout(loops, h)[h] ELSE loops[h]]
  /\ activeScans' = [id \in ScanIds |->
                       IF Has(scanResults, id) THEN NoTimer ELSE activeScans[id]]
  /\ scanResults' = saveScanResultsMap(<<>>)
  /\ stored' = saveScanResultsStore(<<>>, stored, storageOk)
  /\ ra' = [pc |-> "save", count |-> Len(scanResults)]
  /\ ret' = NoReturn
  /\ hist' = Trim(hist, loops')
  /\ UNCHANGED <<storageOk, sc, rm, disposed>>
  /\ UNCHANGED <<authVars, textVars>>

\* saveScanResults() resolved: the callback, then return
RemoveAllSaved ==
  /\ ra.pc = "save"
  /\ ra' = IdleRemoveAll
  /\ IF saveScanResultsSettles(storageOk) = "rejected"
     THEN ret' = Returned("removeAllScanResults", 0, "storage error")
     ELSE \E callbackThrows \in BOOLEAN :
            ret' = Notified(Returned("removeAllScanResults", 0,
                                     IF callbackThrows THEN "callback threw" ELSE "void"))
  /\ UNCHANGED <<scanResults, stored, activeScans, loops, storageOk, sc, rm,
                 disposed, hist>>
  /\ UNCHANGED <<authVars, textVars>>

\* dispose(): clearTimeout for every value of activeScans, then clear it
Dispose ==
  /\ ~disposed
  /\ loops' = [h \in LoopIds |->
                 IF \E id \in ScanIds : activeScans[id] = h
                 THEN clearTimeout(loops, h)[h] ELSE loops[h]]
  /\ activeScans' = [id \in ScanIds |-> NoTimer]
  /\ disposed' = TRUE
  /\ ret' = Returned("dispose", 0, "void")
  /\ hist' = Trim(hist, loops')
  /\ UNCHANGED <<scanResults, stored, storageOk, sc, rm, ra>>
  /\ UNCHANGED <<authVars, textVars>>

Next ==
  \/ StartScanCall
  \/ StartScanToken
  \/ StartScanResponse
  \/ StartScanReturn
  \/ \E h \in LoopIds : PollTimer(h)
  \/ \E h \in LoopIds : PollToken(h)
  \/ \E h \in LoopIds : PollResponse(h)
  \/ \E h \in LoopIds : PollSaved(h)
  \/ \E h \in LoopIds : PollNotified(h)
  \/ \E h \in LoopIds : PollTimeoutSaved(h)
  \/ \E scanId \in RemoveIds : RemoveCall(scanId)
  \/ RemoveSaved
  \/ RemoveAllCall
  \/ RemoveAllSaved
  \/ Dispose

Spec == Init /\ [][Next]_vars


(***************************************************************************)
(* PKCE: crypto.randomBytes, base64url and SHA-256 as generatePKCECodes    *)
(* uses them.  A byte is 0..255; a 32-bit word is the pair <<hi, lo>> of   *)
(* its 16-bit halves, so that no sum leaves the integers of the checker.   *)
(***************************************************************************)
\* the base64url alphabet (RFC 4648, section 5)
base64urlAlphabet == "ABCDEFGHIJKLMNOPQRSTUVWXYZabcdefghijklmnopqrstuvwxyz0123456789-_"
\* the base64 alphabet (RFC 4648, section 4)
base64Alphabet == "ABCDEFGHIJKLMNOPQRSTUVWXYZabcdefghijklmnopqrstuvwxyz0123456789+/"

\* the characters of the bytes from index i on, three bytes to four characters;
\* pad is "=" for base64 and "" for base64url
RECURSIVE encode64(_, _, _, _)
encode64(bytes, i, alphabet, pad) ==
  LET n == Len(bytes) - i + 1
      ch(k) == SubSeq(alphabet, k + 1, k + 1)
      b1 == bytes[i]
      b2 == IF n >= 2 THEN bytes[i + 1] ELSE 0
      b3 == IF n >= 3 THEN bytes[i + 2] ELSE 0
  IN  IF n <= 0 THEN ""
      ELSE ch(b1 \div 4) \o ch((b1 % 4) * 16 + b2 \div 16)
           \o (IF n >= 2 THEN ch((b2 % 16) * 4 + b3 \div 64) ELSE pad)
           \o (IF n >= 3 THEN ch(b3 % 64) ELSE pad)
           \o encode64(bytes, i + 3, alphabet, pad)

\* Buffer.toString("base64url"), digest("base64url"): no padding
base64url(bytes) == encode64(bytes, 1, base64urlAlphabet, "")
\* digest("base64")
base64(bytes) == encode64(bytes, 1, base64Alphabet, "=")

\* the character code of a character of the base64url alphabet
charCodeAt(s, i) ==
  LET ch == SubSeq(s, i, i)
      k == CHOOSE j \in 1..64 : SubSeq(base64urlAlphabet, j, j) = ch
  IN  IF k <= 26 THEN 64 + k
      ELSE IF k <= 52 THEN 70 + k
      ELSE IF k <= 62 THEN k - 5
      ELSE IF k = 63 THEN 45 ELSE 95

\* hash.update(string): the UTF-8 bytes of a string of such characters
utf8(s) == [i \in 1..Len(s) |-> charCodeAt(s, i)]

\* exclusive or and conjunction of the bits of two 4-bit numbers
xor4 ==
  [a \in 0..15 |-> [b \in 0..15 |->
     ((a + b) % 2) + 2 * (((a \div 2) + (b \div 2)) % 2)
       + 4 * (((a \div 4) + (b \div 4)) % 2) + 8 * (((a \div 8) + (b \div 8)) % 2)]]
and4 ==
  [a \in 0..15 |-> [b \in 0..15 |->
     ((a % 2) * (b % 2)) + 2 * (((a \div 2) % 2) * ((b \div 2) % 2))
       + 4 * (((a \div 4) % 2) * ((b \div 4) % 2)) + 8 * ((a \div 8) * (b \div 8))]]
\* a bit operation on two 16-bit numbers, from its table for 4-bit numbers
bitwise16(op4, a, b) ==
  op4[a \div 4096][b \div 4096] * 4096 + op4[(a \div 256) % 16][(b \div 256) % 16] * 256
    + op4[(a \div 16) % 16][(b \div 16) % 16] * 16 + op4[a % 16][b % 16]
xor16(a, b) == bitwise16(xor4, a, b)
and16(a, b) == bitwise16(and4, a, b)

xor(x, y) == <<xor16(x[1], y[1]), xor16(x[2], y[2])>>
xor3(x, y, z) == xor(xor(x, y), z)
and(x, y) == <<and16(x[1], y[1]), and16(x[2], y[2])>>
not(x) == <<65535 - x[1], 65535 - x[2]>>
\* rotate and shift right by n bits, 0 < n < 32
rotr(x, n) ==
  LET y == IF n >= 16 THEN <<x[2], x[1]>> ELSE x
      m == n % 16
      p == 2 ^ m
      q == 2 ^ (16 - m)
  IN  IF m = 0 THEN y
      ELSE <<y[1] \div p + (y[2] % p) * q, y[2] \div p + (y[1] % p) * q>>
shr(x, n) ==
  LET p == 2 ^ n
      q == 2 ^ (16 - n)
  IN  <<x[1] \div p, x[2] \div p + (x[1] % p) * q>>
\* addition modulo 2^32
add(x, y) ==
  LET lo == x[2] + y[2]
  IN  <<(x[1] + y[1] + lo \div 65536) % 65536, lo % 65536>>

\* FIPS 180-4, 4.2.2 and 5.3.3
sha256K ==
  << <<17034, 12184>>, <<28983, 17553>>, <<46528, 64463>>, <<59829, 56229>>,
     <<14678, 49755>>, <<23025, 4593>>, <<37439, 33444>>, <<43804, 24277>>,
     <<55303, 43672>>, <<4739, 23297>>, <<9265, 34238>>, <<21772, 32195>>,
     <<29374, 23924>>, <<32990, 45566>>, <<39900, 1703>>, <<49563, 61812>>,
     <<58523, 27073>>, <<61374, 18310>>, <<4033, 40390>>, <<9228, 41420>>,
     <<11753, 11375>>, <<19060, 33962>>, <<23728, 43484>>, <<30457, 35034>>,
     <<38974, 20818>>, <<43057, 50797>>, <<45059, 10184>>, <<48985, 32711>>,
     <<50912, 3059>>, <<54695, 37191>>, <<1738, 25425>>, <<5161, 10599>>,
     <<10167, 2693>>, <<11803, 8504>>, <<19756, 28156>>, <<21304, 3347>>,
     <<25866, 29524>>, <<30314, 2747>>, <<33218, 51502>>, <<37490, 11397>>,
     <<41663, 59553>>, <<43034, 26187>>, <<49739, 35696>>, <<51052, 20899>>,
     <<53650, 59417>>, <<54937, 1572>>, <<62478, 13701>>, <<4202, 41072>>,
     <<6564, 49430>>, <<7735, 27656>>, <<10056, 30540>>, <<13488, 48309>>,
     <<14620, 3251>>, <<20184, 43594>>, <<23452, 51791>>, <<26670, 28659>>,
     <<29839, 33518>>, <<30885, 25455>>, <<33992, 30740>>, <<36039, 520>>,
     <<37054, 65530>>, <<42064, 27883>>, <<48889, 41975>>, <<50801, 30962>> >>
sha256H ==
  << <<27145, 58983>>, <<47975, 44677>>, <<15470, 62322>>, <<42319, 62778>>,
     <<20750, 21119>>, <<39685, 26764>>, <<8067, 55723>>, <<23520, 52505>> >>

\* the message with its padding: 0x80, zeros, and the length in bits
sha256Pad(bytes) ==
  LET len == Len(bytes)
      zeros == [i \in 1..((119 - (len % 64)) % 64) |-> 0]
      bits == 8 * len
  IN  bytes \o <<128>> \o zeros
        \o <<0, 0, 0, 0, (bits \div 16777216) % 256, (bits \div 65536) % 256,
             (bits \div 256) % 256, bits % 256>>

\* the 16 words of block number b
sha256Block(bytes, b) ==
  [t \in 1..16 |->
     LET o == 64 * (b - 1) + 4 * (t - 1)
     IN  <<bytes[o + 1] * 256 + bytes[o + 2], bytes[o + 3] * 256 + bytes[o + 4]>>]

\* FIPS 180-4, 4.1.2: the six logical functions
Ch(x, y, z) == xor(and(x, y), and(not(x), z))
Maj(x, y, z) == xor3(and(x, y), and(x, z), and(y, z))
Sigma0(x) == xor3(rotr(x, 2), rotr(x, 13), rotr(x, 22))
Sigma1(x) == xor3(rotr(x, 6), rotr(x, 11), rotr(x, 25))
sigma0(x) == xor3(rotr(x, 7), rotr(x, 18), shr(x, 3))
sigma1(x) == xor3(rotr(x, 17), rotr(x, 19), shr(x, 10))

\* the message schedule, from the words it has so far
RECURSIVE sha256Schedule(_)
sha256Schedule(w) ==
  LET t == Len(w) + 1
  IN  IF t > 64 THEN w
      ELSE sha256Schedule(Append(w, add(add(sigma1(w[t - 2]), w[t - 7]),
                                        add(sigma0(w[t - 15]), w[t - 16]))))

\* one round on the working variables st = <<a, b, c, d, e, f, g, h>>
sha256T1(st, k, wt) == add(add(add(st[8], Sigma1(st[5])), add(Ch(st[5], st[6], st[7]), k)), wt)
sha256T2(st) == add(Sigma0(st[1]), Maj(st[1], st[2], st[3]))
sha256Step(st, t1, t2) ==
  <<add(t1, t2), st[1], st[2], st[3], add(st[4], t1), st[5], st[6], st[7]>>
sha256Round(st, k, wt) == sha256Step(st, sha256T1(st, k, wt), sha256T2(st))

\* the rounds: sts holds the working variables before rounds 1..Len(sts); the
\* value is the working variables after round 64
RECURSIVE sha256Rounds(_, _)
sha256Rounds(sts, w) ==
  LET t == Len(sts)
  IN  IF t > 64 THEN sts[t]
      ELSE sha256Rounds(Append(sts, sha256Round(sts[t], sha256K[t], w[t])), w)

\* the intermediate hash value after a block
sha256AddHash(hs, st) == [i \in 1..8 |-> add(hs[i], st[i])]

\* the hash value after blocks b.. of the padded message
RECURSIVE sha256Blocks(_, _, _)
sha256Blocks(hs, bytes, b) ==
  IF 64 * b > Len(bytes) THEN hs
  ELSE sha256Blocks(sha256AddHash(hs, sha256Rounds(<<hs>>,
                                      sha256Schedule(sha256Block(bytes, b)))),
                    bytes, b + 1)

\* the bytes of a hash value
sha256Digest(hs) ==
  [i \in 1..32 |-> IF i % 2 = 1 THEN hs[(i - 1) \div 4 + 1][((i - 1) % 4) \div 2 + 1] \div 256
                   ELSE hs[(i - 1) \div 4 + 1][((i - 1) % 4) \div 2 + 1] % 256]

\* crypto.createHash("sha256").update(bytes).digest(): the 32 bytes of the digest
sha256(bytes) == sha256Digest(sha256Blocks(sha256H, sha256Pad(bytes), 1))

\* crypto.randomBytes(size) as the attempt in call slot c draws it: a value of
\* its own for every slot, so that attempts in flight together hold different
\* bytes; those of the first slot are the octets of RFC 7636, Appendix B
randomBytes(size, c) ==
  LET rfc == <<116, 24, 223, 180, 151, 153, 224, 37, 79, 250, 96, 125, 216, 173, 187, 186,
               22, 212, 37, 77, 105, 214, 191, 240, 91, 88, 5, 88, 83, 132, 141, 121>>
  IN  [i \in 1..size |-> IF c = 1 /\ i <= Len(rfc) THEN rfc[i] ELSE (37 * c + 11 * i) % 256]

\* the challenge is the verifier itself (code_challenge_method "plain")
generatePKCECodesPlain(c) ==
  LET codeVerifier == base64url(randomBytes(32, c))
  IN  [codeVerifier |-> codeVerifier, codeChallenge |-> codeVerifier]

generatePKCECodes(c) ==
  LET codeVerifier == base64url(randomBytes(32, c))
  IN  [codeVerifier |-> codeVerifier,
       codeChallenge |-> base64url(sha256(utf8(codeVerifier)))]

\* what generatePKCECodes gives the attempt of each call slot
pkceCodes == [c \in AuthCallIds |-> generatePKCECodes(c)]

\* getRedirectUri
getRedirectUri(port) == "http://localhost:" \o ToString(port) \o "/callback"

\* buildAuthUrl: the URL by its authorization server, its path and the
\* parameters that differ between attempts
buildAuthUrl(codeChallenge, state, port, authServer) ==
  [authServer |-> authServer, path |-> "/oauth/authorize",
   redirect_uri |-> getRedirectUri(port), state |-> state,
   code_challenge |-> codeChallenge, code_challenge_method |-> "S256"]

(***************************************************************************)
(* AuthService.  The methods are written as functions from the service's   *)
(* state a (its fields, globalState, the calls in flight, the effects of   *)
(* the step so far) to the state at the next suspension point, so that a   *)
(* method that calls another one is the composition the code makes.  An    *)
(* await on a promise that is already resolved is not a suspension point.  *)
(***************************************************************************)
Auth ==
  [tokens |-> tokens, globalState |-> globalState, wellKnownConfig |-> wellKnownConfig,
   calls |-> authCalls, ret |-> NoAuthReturn]

Becomes(a) ==
  /\ tokens' = a.tokens
  /\ globalState' = a.globalState
  /\ wellKnownConfig' = a.wellKnownConfig
  /\ authCalls' = a.calls
  /\ authRet' = a.ret

Did(a, effect) == [a EXCEPT !.ret.did = Append(@, effect)]
Await(a, c, pc) == [a EXCEPT !.calls[c].pc = pc]
Returns(a, c, value) ==
  [a EXCEPT !.calls[c] = IdleAuthCall,
            !.ret = [a.ret EXCEPT !.op = a.calls[c].op, !.value = value,
                                  !.wrote = a.calls[c].wrote]]

\* a call takes the first free slot
NewAuthCall == CHOOSE c \in AuthCallIds :
                 authCalls[c].op = "none" /\ \A d \in 1..(c - 1) : authCalls[d].op # "none"
CanCallAuth == \E c \in AuthCallIds : authCalls[c].op = "none"
Called(op) == [Auth EXCEPT !.calls[NewAuthCall].op = op, !.ret.call = NewAuthCall]
\* call c runs on from its await
Resumed(c) == [Auth EXCEPT !.ret.call = c]

\* if (x), x || y: the truthiness of a string or null
truthy(x) == x \notin {"", "null"}

\* a token counted as valid at the very instant it expires
isAuthenticatedInclusive(t, time) ==
  IF t = NoTokens THEN FALSE ELSE time <= t.expiresAt

isAuthenticated(t, time) ==
  IF t = NoTokens THEN FALSE ELSE time < t.expiresAt

\* a margin twice as long
isTokenExpiringWithinTwo(t, time) ==
  IF t = NoTokens THEN FALSE ELSE time + 2 * fiveMinutesInMs >= t.expiresAt

isTokenExpiringSoon(t, time) ==
  IF t = NoTokens THEN FALSE ELSE time + fiveMinutesInMs >= t.expiresAt

\* this.tokens?.accessToken || null
accessTokenOrNull(t) == IF truthy(t.accessToken) THEN t.accessToken ELSE "null"

\* getAuthorizationServer, once this.wellKnownConfig is assigned
getAuthorizationServer(cfg) ==
  IF Len(cfg.authorization_servers) = 0 THEN "null" ELSE cfg.authorization_servers[1]

\* what fetchWellKnownConfig resolves to: null, or the document of the service
DiscoveryResults ==
  {NoConfig, OAuthWellKnownConfig(<<>>), OAuthWellKnownConfig(<<"https://as1">>)}

\* globalState.update(STORAGE_KEY, this.tokens): the memento takes the value when
\* called, the promise settles later
saveTokensToStorage(a, c) ==
  IF storageOk
    THEN Did([a EXCEPT !.globalState = a.tokens,
                       !.calls[c].wrote = @ \cup {"globalState"}], "update")
    ELSE Did(a, "update")

(***************************************************************************)
(* authenticate()                                                          *)
(***************************************************************************)
\* authenticate has returned ok: to its caller, or into getAccessToken
authenticateReturns(a, c, ok) ==
  LET b == Did(a, IF ok THEN "authenticate:true" ELSE "authenticate:false")
  IN  IF a.calls[c].op = "authenticate"
        THEN Returns(b, c, IF ok THEN "true" ELSE "false")
        ELSE Returns(b, c, IF ok THEN accessTokenOrNull(a.tokens) ELSE "null")

\* a token request whose redirect_uri names the primary port
exchangeCodeForTokensPrimaryPort(a, c, code) ==
  Await(Did([a EXCEPT !.ret.sent =
                        [authServer |-> a.calls[c].authServer, path |-> "/oauth/token",
                         grant_type |-> "authorization_code", code |-> code,
                         redirect_uri |-> getRedirectUri(CALLBACK_PORTS[1]),
                         code_verifier |-> a.calls[c].codeVerifier]],
            "post:code"), c, "auth.exchange")

\* exchangeCodeForTokens(result.authCode, codeVerifier, result.port, authServer)
\* up to its fetch: the token request is sent
exchangeCodeForTokens(a, c, code) ==
  Await(Did([a EXCEPT !.ret.sent =
                        [authServer |-> a.calls[c].authServer, path |-> "/oauth/token",
                         grant_type |-> "authorization_code", code |-> code,
                         redirect_uri |-> getRedirectUri(a.calls[c].port),
                         code_verifier |-> a.calls[c].codeVerifier]],
            "post:code"), c, "auth.exchange")

\* a resolve that runs the continuation of authenticate again on a promise
\* that is settled already
resolveAgain(a, c, authCode) ==
  IF authCode = "null" THEN authenticateReturns(a, c, FALSE)
  ELSE exchangeCodeForTokens(a, c, authCode)

\* resolve(null) or resolve({ authCode, port }) on the promise of
\* startServerAndOpenBrowser, and authenticate running on from its await: a
\* promise that is settled (the call awaits its token exchange or its save) takes
\* no second value
resolve(a, c, authCode) ==
  IF a.calls[c].pc \in {"auth.exchange", "auth.save"} THEN a
  ELSE IF authCode = "null" THEN authenticateReturns(a, c, FALSE)
  ELSE exchangeCodeForTokens(a, c, authCode)

\* a tryStartServer that gives up after the primary port
tryStartServerPrimaryOnly(a, c, portIndex) ==
  IF portIndex >= 1
    THEN resolve(Did(a, "showErrorMessage"), c, "null")
    ELSE Await([a EXCEPT !.calls[c].portIndex = portIndex], c, "auth.listen")

tryStartServer(a, c, portIndex) ==
  IF portIndex >= Len(CALLBACK_PORTS)
    THEN resolve(Did(a, "showErrorMessage"), c, "null")
    ELSE Await([a EXCEPT !.calls[c].portIndex = portIndex], c, "auth.listen")

\* going on to the listener whatever getAuthorizationServer gave
authenticateServerAnyway(a, c) ==
  tryStartServer([a EXCEPT !.calls[c].state = c], c, 0)

\* the rest of authenticate's first run, from the value of getAuthorizationServer:
\* the PKCE codes and the state (a uuid: one value per call slot) are generated
authenticateServer(a, c) ==
  LET authServer == getAuthorizationServer(a.wellKnownConfig)
  IN  IF authServer = "null"
        THEN authenticateReturns(Did(a, "showErrorMessage"), c, FALSE)
        ELSE tryStartServer([a EXCEPT !.calls[c].authServer = authServer,
                                      !.calls[c].codeVerifier = pkceCodes[c].codeVerifier,
                                      !.calls[c].codeChallenge = pkceCodes[c].codeChallenge,
                                      !.calls[c].state = c], c, 0)

authenticate(a, c) ==
  LET b == Did([a EXCEPT !.calls[c].wrote = {}], "authenticate")
  IN  IF a.wellKnownConfig.fetched
        THEN authenticateServer(b, c)
        ELSE Await(Did(b, "fetch:discovery"), c, "auth.discover")

AuthenticateCall ==
  /\ CanCallAuth
  /\ Becomes(authenticate(Called("authenticate"), NewAuthCall))
  /\ UNCHANGED <<now, scanVars, textVars>>

AuthDiscovered(c) ==
  /\ authCalls[c].pc = "auth.discover"
  /\ \E cfg \in DiscoveryResults :
        Becomes(authenticateServer(Did([Resumed(c) EXCEPT !.wellKnownConfig = cfg], "discovered"), c))
  /\ UNCHANGED <<now, scanVars, textVars>>

\* a listener of this service is bound to the port
Listening(calls, port) ==
  \E d \in AuthCallIds : calls[d].pc = "auth.wait" /\ calls[d].port = port

ListenOutcomes(calls, port) ==
  IF Listening(calls, port) THEN {"EADDRINUSE"} ELSE {"listening", "EADDRINUSE", "EACCES"}

\* the listening callback (which arms the Cancel handler and, in
\* setupServerHandlers, the timer) and the error handler of tryStartServer
AuthListen(c) ==
  /\ authCalls[c].pc = "auth.listen"
  /\ LET portIndex == authCalls[c].portIndex
         port == CALLBACK_PORTS[portIndex + 1]
     IN  \E outcome \in ListenOutcomes(authCalls, port) :
            Becomes(CASE outcome = "listening" ->
                           Await(Did(Did([Resumed(c) EXCEPT
                                            !.calls[c].port = port,
                                            !.calls[c].authUrl =
                                              buildAuthUrl(authCalls[c].codeChallenge,
                                                           authCalls[c].state, port,
                                                           authCalls[c].authServer),
                                            !.calls[c].armed = {"timer", "cancel"}],
                                         "listen"),
                                     "openExternal"), c, "auth.wait")
                      [] outcome = "EADDRINUSE" ->
                           tryStartServer(Did(Resumed(c), outcome), c, portIndex + 1)
                      [] OTHER ->
                           resolve(Did(Did(Resumed(c), outcome), "showErrorMessage"), c, "null"))
  /\ UNCHANGED <<now, scanVars, textVars>>

\* the requests a listener may receive: to /callback, where the returned state
\* is the state of this attempt or of another one, or to another path
Callbacks ==
  [path : {"/callback"}, code : {"", "c0de"}, state : AuthCallIds,
   error : {"null", "", "access_denied"}]
    \cup {[NoRequest EXCEPT !.path = "/favicon.ico"]}

\* the requests, with a request that has no url
Requests == Callbacks \cup {[NoRequest EXCEPT !.path = ""]}

\* a handler whose answer to a request for another path stops the timer
onCallbackClearsTimer(a, c, q) ==
  LET b == Did(Did([a EXCEPT !.calls[c].armed = @ \cup {"connection"}], "200"), "close")
  IN  IF q.path = "" THEN Did(a, "400")
      ELSE IF q.path # "/callback" THEN Did([a EXCEPT !.calls[c].armed = @ \ {"timer"}], "404")
      ELSE IF truthy(q.error) THEN resolve(Did(b, "showErrorMessage"), c, "null")
      ELSE IF q.state # a.calls[c].state THEN resolve(Did(b, "showErrorMessage"), c, "null")
      ELSE IF truthy(q.code) THEN resolve(b, c, q.code)
      ELSE resolve(b, c, "null")

\* the request handler of setupServerHandlers; a request without url has the
\* path ""
onCallback(a, c, q) ==
  LET b == Did(Did([a EXCEPT !.calls[c].armed = @ \cup {"connection"}], "200"), "close")
  IN  IF q.path = "" THEN Did(a, "400")
      ELSE IF q.path # "/callback" THEN Did(a, "404")
      ELSE IF truthy(q.error) THEN resolve(Did(b, "showErrorMessage"), c, "null")
      ELSE IF q.state # a.calls[c].state THEN resolve(Did(b, "showErrorMessage"), c, "null")
      ELSE IF truthy(q.code) THEN resolve(b, c, q.code)
      ELSE resolve(b, c, "null")

\* a request reaches the listener: while the call waits the listener is open;
\* after server.close() the connection of the request it has served stays, and
\* the browser can send that request again on it (a reload of the redirect)
AuthCallback(c, q) ==
  /\ \/ authCalls[c].pc = "auth.wait"
     \/ /\ "connection" \in authCalls[c].armed
        /\ q.path = "/callback" /\ truthy(q.code) /\ ~truthy(q.error)
        /\ q.state = authCalls[c].state
  /\ Becomes(onCallback([Resumed(c) EXCEPT !.ret.req = q], c, q))
  /\ UNCHANGED <<now, scanVars, textVars>>

\* the user presses Cancel on the notification, which stays up after the
\* callback has been served
AuthCancel(c) ==
  /\ "cancel" \in authCalls[c].armed
  /\ Becomes(resolve(Did([Resumed(c) EXCEPT !.calls[c].armed = @ \ {"cancel"}], "close"),
                     c, "null"))
  /\ UNCHANGED <<now, scanVars, textVars>>

\* the timer of setupServerHandlers fires: it is never cleared, so it also
\* fires after the callback has been served (the clock of the model spans less
\* than the timer's 5 minutes: when the timer is due is left open)
AuthTimeout(c) ==
  /\ "timer" \in authCalls[c].armed
  /\ Becomes(resolve(Did(Did([Resumed(c) EXCEPT !.calls[c].armed = @ \ {"timer"}], "close"),
                         "showWarningMessage"),
                     c, "null"))
  /\ UNCHANGED <<now, scanVars, textVars>>

\* the body of a successful token response
TokenResponses ==
  [access_token : {"a2"}, refresh_token : {"", "r2"}, expires_in : ExpiresIn]

\* exchangeCodeForTokens resolves, and authenticate runs on to its save
onExchanged(a, c, ok, data) ==
  IF ~ok
    THEN authenticateReturns(Did(a, "showErrorMessage"), c, FALSE)
    ELSE Await(saveTokensToStorage(
                 [a EXCEPT !.tokens = AuthTokens(data.access_token, data.refresh_token,
                                                 now + data.expires_in * 1000),
                           !.calls[c].wrote = @ \cup {"tokens"}], c),
               c, "auth.save")

AuthExchanged(c) ==
  /\ authCalls[c].pc = "auth.exchange"
  /\ \E ok \in BOOLEAN : \E data \in TokenResponses :
        Becomes(onExchanged(Resumed(c), c, ok, data))
  /\ UNCHANGED <<now, scanVars, textVars>>

\* saveTokensToStorage settles
onSaved(a, c) ==
  IF storageOk
    THEN authenticateReturns(Did(a, "showInformationMessage"), c, TRUE)
    ELSE authenticateReturns(Did(a, "showErrorMessage"), c, FALSE)

AuthSaved(c) ==
  /\ authCalls[c].pc = "auth.save"
  /\ Becomes(onSaved(Resumed(c), c))
  /\ UNCHANGED <<now, scanVars, textVars>>

(***************************************************************************)
(* refreshAccessToken() and getAccessToken()                               *)
(***************************************************************************)
\* getAccessToken giving up after a failed refresh
refreshGivesUp(a, c, ok) ==
  IF ok
    THEN Returns(Did(a, "refresh:true"), c, accessTokenOrNull(a.tokens))
    ELSE Returns(Did(a, "refresh:false"), c, "null")

\* refreshAccessToken has returned ok into getAccessToken
refreshReturns(a, c, ok) ==
  IF ok
    THEN Returns(Did(a, "refresh:true"), c, accessTokenOrNull(a.tokens))
    ELSE authenticate(Did(a, "refresh:false"), c)

\* the rest of refreshAccessToken's first run, from the value of
\* getAuthorizationServer; reading this.tokens.refreshToken throws when a logout
\* has cleared this.tokens meanwhile
refreshPost(a, c) ==
  IF getAuthorizationServer(a.wellKnownConfig) = "null" THEN refreshReturns(a, c, FALSE)
  ELSE IF a.tokens = NoTokens THEN refreshReturns(a, c, FALSE)
  ELSE Await(Did(a, "post:refresh"), c, "refresh.post")

refreshAccessToken(a, c) ==
  IF ~truthy(a.tokens.refreshToken) THEN refreshReturns(Did(a, "refresh"), c, FALSE)
  ELSE IF a.wellKnownConfig.fetched THEN refreshPost(Did(a, "refresh"), c)
  ELSE Await(Did(Did(a, "refresh"), "fetch:discovery"), c, "refresh.discover")

getAccessToken(a, c) ==
  IF isAuthenticated(a.tokens, now) /\ ~isTokenExpiringSoon(a.tokens, now)
    THEN Returns(a, c, accessTokenOrNull(a.tokens))
  ELSE IF isAuthenticated(a.tokens, now) /\ truthy(a.tokens.refreshToken)
    THEN refreshAccessToken(a, c)
  ELSE authenticate(a, c)

GetAccessTokenCall ==
  /\ CanCallAuth
  /\ Becomes(getAccessToken(Called("getAccessToken"), NewAuthCall))
  /\ UNCHANGED <<now, scanVars, textVars>>

RefreshDiscovered(c) ==
  /\ authCalls[c].pc = "refresh.discover"
  /\ \E cfg \in DiscoveryResults :
        Becomes(refreshPost(Did([Resumed(c) EXCEPT !.wellKnownConfig = cfg], "discovered"), c))
  /\ UNCHANGED <<now, scanVars, textVars>>

\* how the refresh request ends: no response, a non-success status, a success
RefreshOutcomes == {"network error", "401", "200"}

\* the refresh request settles, and refreshAccessToken runs on to its save
onRefreshed(a, c, outcome, data) ==
  IF outcome # "200" THEN refreshReturns(Did(a, outcome), c, FALSE)
  ELSE IF ~truthy(data.refresh_token) /\ a.tokens = NoTokens
    THEN refreshReturns(Did(a, outcome), c, FALSE)
  ELSE Await(saveTokensToStorage(
               [Did(a, outcome) EXCEPT !.tokens = AuthTokens(data.access_token,
                                               IF truthy(data.refresh_token)
                                                 THEN data.refresh_token
                                                 ELSE a.tokens.refreshToken,
                                               now + data.expires_in * 1000),
                         !.calls[c].wrote = @ \cup {"tokens"}], c),
             c, "refresh.save")

RefreshResponse(c) ==
  /\ authCalls[c].pc = "refresh.post"
  /\ \E outcome \in RefreshOutcomes : \E data \in TokenResponses :
        Becomes(onRefreshed(Resumed(c), c, outcome, data))
  /\ UNCHANGED <<now, scanVars, textVars>>

RefreshSaved(c) ==
  /\ authCalls[c].pc = "refresh.save"
  /\ Becomes(refreshReturns(Resumed(c), c, storageOk))
  /\ UNCHANGED <<now, scanVars, textVars>>

(***************************************************************************)
(* logout(), isAuthenticated(), and the clock                              *)
(***************************************************************************)
logout(a, c) ==
  Await(Did([a EXCEPT !.tokens = NoTokens,
                      !.wellKnownConfig = NoConfig,
                      !.globalState = IF storageOk THEN NoTokens ELSE @], "update"),
        c, "logout.save")

LogoutCall ==
  /\ CanCallAuth
  /\ Becomes(logout(Called("logout"), NewAuthCall))
  /\ UNCHANGED <<now, scanVars, textVars>>

\* globalState.update settles: logout returns, or rejects with the storage error
LogoutSaved(c) ==
  /\ authCalls[c].pc = "logout.save"
  /\ Becomes(Returns(Resumed(c), c, IF storageOk THEN "void" ELSE "threw"))
  /\ UNCHANGED <<now, scanVars, textVars>>

clearConfigCache(a) == [a EXCEPT !.wellKnownConfig = NoConfig]

\* clearConfigCache() is synchronous: it runs between the steps of the calls
\* in flight
ClearConfigCacheCall ==
  /\ Becomes([clearConfigCache(Auth) EXCEPT !.ret.op = "clearConfigCache", !.ret.value = "void"])
  /\ UNCHANGED <<now, scanVars, textVars>>

IsAuthenticatedCall ==
  /\ authRet' = [NoAuthReturn EXCEPT !.op = "isAuthenticated",
                                     !.value = IF isAuthenticated(tokens, now)
                                                 THEN "true" ELSE "false"]
  /\ UNCHANGED <<tokens, globalState, wellKnownConfig, now, authCalls, scanVars, textVars>>

Tick ==
  /\ now < MaxNow
  /\ now' = now + ClockStep
  /\ authRet' = NoAuthReturn
  /\ UNCHANGED <<tokens, globalState, wellKnownConfig, authCalls, scanVars, textVars>>

\* the state after the constructor of AuthService, with no scan service activity
AuthInit ==
  /\ \E ok \in BOOLEAN :
        /\ storageOk = ok
        /\ globalState \in (IF ok THEN StoredTokens ELSE {NoTokens})
  /\ tokens = loadTokensFromStorage(globalState)
  /\ wellKnownConfig = NoConfig
  /\ now = 0
  /\ authCalls = [c \in AuthCallIds |-> IdleAuthCall]
  /\ authRet = NoAuthReturn
  /\ arg = NoText
  /\ out = NoText
  /\ stored = <<>>
  /\ scanResults = <<>>
  /\ activeScans = [id \in ScanIds |-> NoTimer]
  /\ loops = [h \in LoopIds |-> FreeLoop]
  /\ sc = IdleCall
  /\ rm = IdleRemove
  /\ ra = IdleRemoveAll
  /\ disposed = FALSE
  /\ ret = NoReturn
  /\ hist = NoHist

AuthNext ==
  \/ AuthenticateCall
  \/ GetAccessTokenCall
  \/ LogoutCall
  \/ Tick
  \/ \E c \in AuthCallIds : AuthDiscovered(c)
  \/ \E c \in AuthCallIds : AuthListen(c)
  \/ \E c \in AuthCallIds : \E q \in Callbacks : AuthCallback(c, q)
  \/ \E c \in AuthCallIds : AuthCancel(c)
  \/ \E c \in AuthCallIds : AuthTimeout(c)
  \/ \E c \in AuthCallIds : AuthExchanged(c)
  \/ \E c \in AuthCallIds : AuthSaved(c)
  \/ \E c \in AuthCallIds : RefreshDiscovered(c)
  \/ \E c \in AuthCallIds : RefreshResponse(c)
  \/ \E c \in AuthCallIds : RefreshSaved(c)
  \/ \E c \in AuthCallIds : LogoutSaved(c)

AuthSpec == AuthInit /\ [][AuthNext]_vars

(***************************************************************************)
(* The discovery cache: AuthService with clearConfigCache(), in sessions   *)
(* where no request reaches the listener, so that an attempt that binds    *)
(* its listener ends by cancellation or by its timer.                      *)
(***************************************************************************)
DiscoveryNext ==
  \/ AuthenticateCall
  \/ GetAccessTokenCall
  \/ LogoutCall
  \/ ClearConfigCacheCall
  \/ Tick
  \/ \E c \in AuthCallIds : AuthDiscovered(c)
  \/ \E c \in AuthCallIds : AuthListen(c)
  \/ \E c \in AuthCallIds : AuthCancel(c)
  \/ \E c \in AuthCallIds : AuthTimeout(c)
  \/ \E c \in AuthCallIds : RefreshDiscovered(c)
  \/ \E c \in AuthCallIds : RefreshResponse(c)
  \/ \E c \in AuthCallIds : RefreshSaved(c)
  \/ \E c \in AuthCallIds : LogoutSaved(c)

DiscoverySpec == AuthInit /\ [][DiscoveryNext]_vars

(***************************************************************************)
(* The attempts of authenticate() alone, with what lets them go on: the    *)
(* fetches of discovery and of the token exchange settle, the listener     *)
(* emits "listening" or "error", globalState.update settles, and the       *)
(* 5-minute timer fires.  That the browser ever calls back, or that the     *)
(* user ever presses Cancel, is not assumed.                                *)
(***************************************************************************)
AttemptNext ==
  \/ AuthenticateCall
  \/ \E c \in AuthCallIds : AuthDiscovered(c)
  \/ \E c \in AuthCallIds : AuthListen(c)
  \/ \E c \in AuthCallIds : \E q \in Requests : AuthCallback(c, q)
  \/ \E c \in AuthCallIds : AuthCancel(c)
  \/ \E c \in AuthCallIds : AuthTimeout(c)
  \/ \E c \in AuthCallIds : AuthExchanged(c)
  \/ \E c \in AuthCallIds : AuthSaved(c)

AttemptSpec ==
  /\ AuthInit
  /\ [][AttemptNext]_vars
  /\ \A c \in AuthCallIds :
        /\ WF_vars(AuthDiscovered(c))
        /\ WF_vars(AuthListen(c))
        /\ WF_vars(AuthTimeout(c))
        /\ WF_vars(AuthExchanged(c))
        /\ WF_vars(AuthSaved(c))

(***************************************************************************)
(* isAuthenticated() on every token state and time: a service at rest,     *)
(* holding any token set, asked as time passes.                            *)
(***************************************************************************)
TokenStates ==
  {NoTokens} \cup {AuthTokens(at, rt, k * ClockStep) :
                     at \in {"a1", "a2"}, rt \in {"", "r1"}, k \in 0..(MaxTicks + 3)}

QueryInit ==
  /\ tokens \in TokenStates
  /\ globalState = tokens
  /\ now = 0
  /\ wellKnownConfig = NoConfig
  /\ authCalls = [c \in AuthCallIds |-> IdleAuthCall]
  /\ authRet = NoAuthReturn
  /\ arg = NoText
  /\ out = NoText
  /\ storageOk = TRUE
  /\ stored = <<>>
  /\ scanResults = <<>>
  /\ activeScans = [id \in ScanIds |-> NoTimer]
  /\ loops = [h \in LoopIds |-> FreeLoop]
  /\ sc = IdleCall
  /\ rm = IdleRemove
  /\ ra = IdleRemoveAll
  /\ disposed = FALSE
  /\ ret = NoReturn
  /\ hist = NoHist

QueryNext == IsAuthenticatedCall \/ Tick

QuerySpec == QueryInit /\ [][QueryNext]_vars

(***************************************************************************)
(* generateScanTitle and the summary of handleScanCompletion: the two      *)
(* functions that build text, applied to drawn arguments.  Strings are     *)
(* strings, with Len, \o and SubSeq as length, concatenation and slice.    *)
(***************************************************************************)
\* String.prototype.split('/')
RECURSIVE split(_)
split(s) ==
  IF \A i \in 1..Len(s) : SubSeq(s, i, i) # "/" THEN <<s>>
  ELSE LET k == CHOOSE i \in 1..Len(s) :
                  SubSeq(s, i, i) = "/" /\ \A j \in (i + 1)..Len(s) : SubSeq(s, j, j) # "/"
       IN  Append(split(SubSeq(s, 1, k - 1)), SubSeq(s, k + 1, Len(s)))

\* s.slice(-n): the last n characters of s
slice(s, n) == IF Len(s) <= n THEN s ELSE SubSeq(s, Len(s) - n + 1, Len(s))

getDisplayFileName(filePath) ==
  LET parts == split(filePath)
      fileName == parts[Len(parts)]
      parentDir == parts[Len(parts) - 1]
  IN  IF Len(parts) > 1
        THEN IF Len(fileName) + Len(parentDir) > 40
               THEN parentDir \o "/..." \o slice(fileName, 20)
               ELSE parentDir \o "/" \o fileName
      ELSE IF Len(fileName) > 30 THEN "..." \o slice(fileName, 27)
      ELSE fileName

\* metadata?.projectName || metadata?.workspaceName || "Unknown Project"
contextName(metadata) ==
  IF metadata.projectName # "" THEN metadata.projectName
  ELSE IF metadata.workspaceName # "" THEN metadata.workspaceName
  ELSE "Unknown Project"

generateScanTitle(files, metadata) ==
  LET firstFileName == getDisplayFileName(files[1].path)
      otherFilesCount == Len(files) - 1
  IN  IF Len(files) = 1 THEN contextName(metadata) \o " / " \o firstFileName
      ELSE IF otherFilesCount = 1
        THEN contextName(metadata) \o " / " \o firstFileName \o " and 1 other file"
      ELSE contextName(metadata) \o " / " \o firstFileName \o " and "
             \o ToString(otherFilesCount) \o " other files"

\* the files startScan has read (path: vscode.workspace.asRelativePath(uri)) and
\* the metadata of the request; "" stands for an absent name
TitleArgs ==
  LET paths == {"MyContract.sol", "project/MyContract.sol", "contracts/token/ERC20.sol",
                "AVeryLongContractNameForTestingPurposes.sol",
                "contracts-of-the-protocol/AVeryLongContractNameForTests.sol"}
      lists == UNION {[1..n -> [path : paths]] : n \in 1..MaxTitleFiles}
  IN  [op : {"generateScanTitle"}, files : lists,
       metadata : [projectName : {"", "ProjectX"}, workspaceName : {"", "workspace"}]]

GenerateScanTitle ==
  /\ arg.op = "generateScanTitle"
  /\ out = NoText
  /\ out' = [op |-> "generateScanTitle",
             fileName |-> getDisplayFileName(arg.files[1].path),
             value |-> generateScanTitle(arg.files, arg.metadata)]
  /\ UNCHANGED <<arg, scanVars, authVars>>

severityOrder == <<"CRITICAL", "HIGH", "MEDIUM", "LOW", "WARN", "INFORMATIONAL">>

\* severity.toLowerCase()
toLowerCase(severity) ==
  [CRITICAL |-> "critical", HIGH |-> "high", MEDIUM |-> "medium", LOW |-> "low",
   WARN |-> "warn", INFORMATIONAL |-> "informational"][severity]

\* severityCounts[severity], 0 where the reduce has made no entry
severityCounts(result, severity) ==
  Cardinality({i \in 1..Len(result) : result[i].severity = severity})

\* a summary with a part for every severity of the order, occurring or not
summaryPartsAll(result) ==
  [k \in 1..Len(severityOrder) |->
     [severity |-> severityOrder[k], count |-> severityCounts(result, severityOrder[k])]]

\* the parts pushed by the loop over severityOrder, before their formatting
summaryParts(result) ==
  SelectSeq([k \in 1..Len(severityOrder) |->
               [severity |-> severityOrder[k],
                count |-> severityCounts(result, severityOrder[k])]],
            LAMBDA p : p.count # 0)

\* summaryParts.join(', ') of the formatted parts
RECURSIVE join(_)
join(parts) ==
  IF parts = <<>> THEN ""
  ELSE LET last == parts[Len(parts)]
           text == ToString(last.count) \o " " \o toLowerCase(last.severity)
       IN  IF Len(parts) = 1 THEN text
           ELSE join(SubSeq(parts, 1, Len(parts) - 1)) \o ", " \o text

\* the message handleScanCompletion shows for result ("": none)
completionMessage(status, result) ==
  LET issueCount == Len(result)
  IN  IF status = "completed"
        THEN IF issueCount = 0 THEN "Scan completed: No issues found"
             ELSE "Scan completed: " \o ToString(issueCount) \o " issue"
                    \o (IF issueCount = 1 THEN "" ELSE "s") \o " found ("
                    \o join(summaryParts(result)) \o ")"
      ELSE IF status = "failed" THEN "Scan failed: Check the scan results for details"
      ELSE ""

\* the terminal results a tick hands to handleScanCompletion
CompletionArgs ==
  LET severities == {severityOrder[k] : k \in 1..Len(severityOrder)}
  IN  [op : {"handleScanCompletion"}, status : TerminalStatuses,
       result : UNION {[1..n -> [severity : severities]] : n \in 0..MaxIssues}]

HandleScanCompletion ==
  /\ arg.op = "handleScanCompletion"
  /\ out = NoText
  /\ out' = [op |-> "handleScanCompletion",
             summaryParts |-> IF arg.status = "completed" /\ Len(arg.result) # 0
                                THEN summaryParts(arg.result) ELSE <<>>,
             value |-> completionMessage(arg.status, arg.result)]
  /\ UNCHANGED <<arg, scanVars, authVars>>

TextInit ==
  /\ arg \in TitleArgs \cup CompletionArgs
  /\ out = NoText
  /\ storageOk = TRUE
  /\ stored = <<>>
  /\ scanResults = <<>>
  /\ activeScans = [id \in ScanIds |-> NoTimer]
  /\ loops = [h \in LoopIds |-> FreeLoop]
  /\ sc = IdleCall
  /\ rm = IdleRemove
  /\ ra = IdleRemoveAll
  /\ disposed = FALSE
  /\ ret = NoReturn
  /\ hist = NoHist
  /\ tokens = NoTokens
  /\ globalState = NoTokens
  /\ wellKnownConfig = NoConfig
  /\ now = 0
  /\ authCalls = [c \in AuthCallIds |-> IdleAuthCall]
  /\ authRet = NoAuthReturn

TextNext == GenerateScanTitle \/ HandleScanCompletion

TextSpec == TextInit /\ [][TextNext]_vars

(***************************************************************************)
(* Steps of the poll closures, as the properties below read them.          *)
(***************************************************************************)
\* closure h sends its GET /api/v1/scan/{id} in this step
StartsFetch(h) == loops[h].pc = "token" /\ loops'[h].pc = "fetch"

\* closure h gets a pending timer in this step
SchedulesTimer(h) == loops[h].pc # "timer" /\ loops'[h].pc = "timer"

\* the status fetch of closure h fails in this step (no token, the request
\* rejects, a non-success status)
FetchFails(h) ==
  /\ loops[h].pc \in {"token", "fetch"}
  /\ loops'[h].pc \notin {"token", "fetch", "save"}

\* startScan sets its new record in this step
InsertStep == sc.pc = "create" /\ sc'.pc = "save"

\* closure h sets the record it fetched in this step
StoreStep(h) == loops[h].pc = "fetch" /\ loops'[h].pc = "save"

(***************************************************************************)
(* Properties.                                                             *)
(***************************************************************************)
\* C1: once removeScanResult(id) has returned true for an id that was being
\* polled, no closure that was polling that id sends a status request any
\* more, wherever its tick was suspended when the record was removed.
C1_NoFetchAfterRemove == [][\A h \in hist.removed : ~StartsFetch(h)]_vars

\* C2: a tick whose status fetch fails (no token, network error, non-success
\* HTTP status) does not end the loop: the next tick is scheduled and the
\* record is left as it was.
C2_FailedFetchReschedules ==
  [][\A h \in LoopIds :
       FetchFails(h) => loops'[h].pc = "timer" /\ scanResults' = scanResults]_vars

\* C3: a record that a successful startScan inserted and that nobody removed
\* reaches a terminal status.  No step but a tick of a closure polling the id
\* changes the status of its record, so until the status is terminal (and
\* while the service is not disposed) some closure polling that id must be
\* alive, or the startScan that will start it must still be in flight.
C3_UnfinishedScanIsPolled ==
  \A id \in ScanIds :
    (~disposed /\ Has(scanResults, id)
       /\ Get(scanResults, id).status \notin TerminalStatuses)
    => \/ \E h \in Live(loops) : loops[h].id = id
       \/ sc.pc = "save" /\ sc.scanResult.id = id

\* kept is what the retention cap leaves of the map m: nothing is dropped
\* while m is within the cap; otherwise exactly MAX_STORED_RESULTS records
\* stay, every dropped record is no newer than every kept one, and of two
\* equally old records the one later in map order is the one dropped
Capped(m, kept) ==
  LET keptKeys == Keys(kept)
      dropped  == {i \in 1..Len(m) : m[i].key \notin keptKeys}
  IN  /\ keptKeys \subseteq Keys(m)
      /\ Len(kept) = IF Len(m) <= MAX_STORED_RESULTS THEN Len(m) ELSE MAX_STORED_RESULTS
      /\ \A i \in dropped :
           \A j \in (1..Len(m)) \ dropped :
              \/ m[i].createdAt < m[j].createdAt
              \/ m[i].createdAt = m[j].createdAt /\ j < i

\* C4: at every suspension point the store holds at most MAX_STORED_RESULTS
\* records, and whenever the cap drops records (at the load from storage, at
\* a startScan insert, at a poll update) the dropped ones are the oldest by
\* createdAt, ties going by map order.
C4_RetentionCap ==
  /\ storageOk => Capped(stored, scanResults)
  /\ [][/\ Len(scanResults') <= MAX_STORED_RESULTS
        /\ InsertStep =>
             Capped(MapSet(scanResults, sc'.scanResult.key, sc'.scanResult), scanResults')
        /\ \A h \in LoopIds :
             StoreStep(h) =>
               \E data \in ServerData(loops[h].id) :
                  Capped(MapSet(scanResults, loops[h].id,
                                FetchedResult(loops[h].id, data, h)), scanResults')]_vars

\* C4 witness: a startScan insert met a full store and a record older than
\* the new one was dropped for it
C4_Witness ==
  /\ Len(scanResults) = MAX_STORED_RESULTS
  /\ \E id \in ScanIds : Has(scanResults, id)

\* C5: once a closure has seen a terminal status in a response, or its
\* timeout, it sends no further status request, also when the completion
\* handling, the timeout handling or the change callback raises an error.
C5_NoFetchAfterEnd ==
  [][\A h \in LoopIds : loops[h].seen # "none" => ~StartsFetch(h)]_vars

\* a record of the store was marked as timed out in this step
MarkedTimedOut(id) ==
  /\ Has(scanResults', id)
  /\ Get(scanResults', id).codeSummary = "timed out"
  /\ Get(scanResults, id).codeSummary # "timed out"

\* C6: a tick that starts after the timeout has elapsed sends no request and
\* stops the polling of its id: when its handling is over no timer is
\* pending for the closure.  A record is marked failed (and the mark
\* persisted) only if it exists with status pending or processing; a
\* terminal record is left as it is.
C6_TimeoutStopsPolling ==
  [][/\ \A h \in LoopIds :
          /\ loops[h].seen = "timeout" => ~StartsFetch(h)
          /\ loops[h].pc = "timeoutSave" => ~SchedulesTimer(h)
          /\ (loops[h].pc = "timer" /\ loops'[h].pc = "timeoutSave")
             => /\ activeScans'[loops[h].id] = NoTimer
                /\ MarkedTimedOut(loops[h].id)
                /\ storageOk => Get(stored', loops[h].id).status = "failed"
     /\ \A id \in ScanIds :
          MarkedTimedOut(id)
          => /\ Get(scanResults, id).status \in {"pending", "processing"}
             /\ Get(scanResults', id).status = "failed"]_vars

\* C7: after dispose() no closure sends a status request and no closure
\* gets a timer, the closures whose tick was suspended on the network when
\* dispose() ran included.
C7_NothingAfterDispose ==
  [][disposed => \A h \in LoopIds : ~StartsFetch(h) /\ ~SchedulesTimer(h)]_vars

\* C8: when startScan returns the id of its scan, the store holds the record
\* of that id with the status of the create response and no issues, the
\* record is in workspace storage (if storage takes writes), and a timer of
\* a polling loop for the id is pending; whatever the store held before.
C8_StartScanPostcondition ==
  [][(sc.pc = "save" /\ sc'.pc = "idle")
     => LET id == sc.scanResult.id
        IN  /\ Has(scanResults', id)
            /\ Get(scanResults', id).status = sc.scanResult.status
            /\ Get(scanResults', id).result = 0
            /\ storageOk => Has(stored', id)
            /\ \E h \in LoopIds : /\ loops'[h].pc = "timer"
                                  /\ loops'[h].id = id
                                  /\ activeScans'[id] = h]_vars

\* the errors startScan throws
StartScanErrors == {"Not authenticated", "No valid files to scan", "fetch failed",
                    "HTTP error", "Scan failed"}

\* C9: a startScan that fails (no token, no readable file, the POST rejected,
\* a non-success HTTP status, a success:false body) throws its error to the
\* caller, and no step of it has touched the store, workspace storage, the
\* polling loops or activeScans.
C9_FailedStartScanChangesNothing ==
  [][/\ (sc.pc \in {"token", "create"} /\ sc'.pc = "idle")
        => ret'.op = "startScan" /\ ret'.value \in StartScanErrors
     /\ (sc.pc \in {"idle", "token", "create"} /\ sc' # sc /\ sc'.pc # "save")
        => UNCHANGED <<scanResults, stored, loops, activeScans>>]_vars

\* C9 witness: a startScan has just failed on a success:false response while
\* the store held records
C9_Witness ==
  /\ ret = Returned("startScan", 0, "Scan failed")
  /\ scanResults # <<>>

Effects(r) == {r.did[i] : i \in DOMAIN r.did}

\* the step is the request handler of a listener serving a request on /callback
CallbackStep ==
  /\ authRet'.call # 0
  /\ authCalls[authRet'.call].pc = "auth.wait"
  /\ "200" \in Effects(authRet')

\* authenticate() returns false in this step, no token request was sent in it,
\* and this.tokens and globalState are as they were
FailsUnchanged ==
  /\ "authenticate:false" \in Effects(authRet')
  /\ "post:code" \notin Effects(authRet')
  /\ tokens' = tokens
  /\ globalState' = globalState

\* C11: an authentication attempt whose callback request carries a state other
\* than the state the attempt generated, or carries an error parameter, fails:
\* authenticate() returns false, no token exchange is made, and the token set
\* in memory and in globalState stays as it was.
C11_BadCallbackFails ==
  [][(/\ CallbackStep
      /\ \/ authRet'.req.state # authCalls[authRet'.call].state
         \/ authRet'.req.error # "null")
       => FailsUnchanged]_vars

\* C12: whenever authenticate() returns false, at whichever of its steps it
\* failed, it has assigned neither this.tokens nor the globalState record: the
\* token set in memory and in storage is what it was before the call.
C12_FailedAuthenticateWritesNothing ==
  "authenticate:false" \in Effects(authRet) => authRet.wrote = {}

\* the refresh request of the step failed: no response, or a non-success status
RefreshRequestFailed == Effects(authRet') \cap {"network error", "401"} # {}

\* C13: when the refresh request fails (network error, or a non-success status
\* such as 401), refreshAccessToken returns false, this.tokens and the
\* globalState record stay as they were, and the getAccessToken call that
\* started the refresh goes on to authenticate().
C13_FailedRefreshFallsThrough ==
  [][RefreshRequestFailed =>
       /\ "refresh:false" \in Effects(authRet')
       /\ tokens' = tokens
       /\ globalState' = globalState
       /\ "authenticate" \in Effects(authRet')]_vars

\* a refresh request was answered 401 and the call now binds its listener
C13_Witness ==
  /\ "401" \in Effects(authRet)
  /\ authCalls[authRet.call].op = "getAccessToken"
  /\ authCalls[authRet.call].pc = "auth.listen"

\* the step is a call of getAccessToken()
GetAccessTokenStep ==
  /\ authRet'.call # 0
  /\ authCalls[authRet'.call].op = "none"
  /\ "getAccessToken" \in {authRet'.op, authCalls'[authRet'.call].op}

\* the stored token is within the margin of its expiry, or past it
ExpiringOrExpired(t, time) == t # NoTokens /\ time + fiveMinutesInMs >= t.expiresAt

\* C14: getAccessToken, called when the stored token is within 1 minute of its
\* expiry or already expired and a refresh token is stored, first attempts a
\* refresh, and starts the interactive flow only when that refresh has failed.
C14_RefreshBeforeInteractive ==
  [][(GetAccessTokenStep /\ ExpiringOrExpired(tokens, now) /\ truthy(tokens.refreshToken))
       => /\ authRet'.did # <<>>
          /\ authRet'.did[1] = "refresh"
          /\ "authenticate" \in Effects(authRet') => "refresh:false" \in Effects(authRet')]_vars

C16_IsAuthenticated ==
  [][authRet'.op = "isAuthenticated" =>
       /\ authRet'.value = "true" <=> (tokens # NoTokens /\ now < tokens.expiresAt)
       /\ UNCHANGED <<tokens, globalState, wellKnownConfig, now, authCalls>>]_vars

\* isAuthenticated() has just answered false at the very instant of expiry
C16_Witness ==
  /\ authRet.op = "isAuthenticated"
  /\ tokens # NoTokens
  /\ now = tokens.expiresAt
  /\ authRet.value = "false"

\* authenticate() gets the value of getAuthorizationServer() in this step: its
\* discovery request has settled, or it was called with a cached configuration
AuthServerStep ==
  /\ authRet'.call # 0
  /\ \/ authCalls[authRet'.call].pc = "auth.discover"
     \/ "authenticate" \in Effects(authRet') /\ "fetch:discovery" \notin Effects(authRet')

\* C17: when the discovery document cannot be fetched, or its
\* authorization_servers list is empty, authenticate() returns false: it binds
\* no listener, opens no browser, and leaves the token set as it was.
C17_NoServerNoListener ==
  [][(AuthServerStep /\ getAuthorizationServer(wellKnownConfig') = "null")
       => /\ "authenticate:false" \in Effects(authRet')
          /\ authCalls'[authRet'.call] = IdleAuthCall
          /\ Effects(authRet') \cap {"listen", "openExternal"} = {}
          /\ tokens' = tokens
          /\ globalState' = globalState]_vars

\* the discovery request of an authenticate() has just failed, and the call has
\* returned false
C17_Witness ==
  /\ "discovered" \in Effects(authRet)
  /\ wellKnownConfig = NoConfig
  /\ "authenticate:false" \in Effects(authRet)
  /\ authRet.op = "authenticate"

\* logout() has just completed
LogoutCompleted == authRet.op = "logout" /\ authRet.value = "void"

\* C18: when logout() completes, this.tokens is absent, the cached
\* configuration is absent, the globalState record is cleared and
\* isAuthenticated() is false; and an authenticate() that finds no cached
\* configuration fetches the discovery document.
C18_LogoutClears ==
  /\ [](LogoutCompleted =>
          /\ tokens = NoTokens
          /\ wellKnownConfig = NoConfig
          /\ globalState = NoTokens
          /\ ~isAuthenticated(tokens, now))
  /\ [][("authenticate" \in Effects(authRet') /\ wellKnownConfig' = NoConfig)
          => "fetch:discovery" \in Effects(authRet')]_vars

(***************************************************************************)
(* Properties of removeAllScanResults and removeScanResult, under Spec.    *)
(***************************************************************************)
\* C19: when removeAllScanResults() completes, the store is empty, the stored
\* copy is empty, and no polling loop has a timer pending for any scan id,
\* the ids polled while the store holds no record of them included.
C19_RemoveAllStopsEverything ==
  (ret.op = "removeAllScanResults" /\ ret.value = "void")
    => /\ scanResults = <<>>
       /\ stored = <<>>
       /\ \A h \in LoopIds : loops[h].pc # "timer"
       /\ \A id \in ScanIds : activeScans[id] = NoTimer

\* the step is the first run of a removeScanResult(rm'.id) that found a record
RemoveFound == rm.pc = "idle" /\ rm'.pc = "save"

\* the step is a removeScanResult returning value
RemoveReturns(value) == ret'.op = "removeScanResult" /\ ret'.value = value

\* C20: removeScanResult(id) returns true exactly when the store held a record
\* with that id; then that record alone is deleted, its poll is stopped (no
\* closure polling that id is left with a timer pending or a tick in flight),
\* the store is written to storage, and every other record and the polling
\* loop of every other scan are as before; when the store holds no such record
\* it returns false and nothing changes.
C20_RemoveFrame ==
  [][/\ RemoveReturns("false") =>
          /\ ~Has(scanResults, ret'.id)
          /\ UNCHANGED <<scanResults, stored, activeScans, loops>>
     /\ RemoveFound =>
          /\ Has(scanResults, rm'.id)
          /\ scanResults' = MapDelete(scanResults, rm'.id)
          /\ storageOk => stored' = resultsToStore(scanResults')
          /\ activeScans' = [activeScans EXCEPT ![rm'.id] = NoTimer]
          /\ Pollers(loops', rm'.id) = {}
          /\ \A h \in LoopIds : loops[h].id # rm'.id => loops'[h] = loops[h]
     /\ RemoveReturns("true") =>
          /\ rm.pc = "save"
          /\ UNCHANGED <<scanResults, stored, activeScans, loops>>]_vars

(***************************************************************************)
(* Properties of the Result Store and the polling loops, under Spec.       *)
(***************************************************************************)
\* C21: removeAllScanResults() called while the store is empty is a no-op: it
\* leaves the store empty, returns without an error, and does not call the
\* change-notification callback.
C21_RemoveAllOnEmptyIsNoOp ==
  [][/\ (ra.pc = "idle" /\ ra'.pc = "save" /\ ra'.count = 0) => scanResults' = <<>>
     /\ (ra.pc = "save" /\ ra.count = 0 /\ ra'.pc = "idle")
          => ret'.value = "void" /\ ~ret'.notified]_vars

C25_LateResponseDiscarded ==
  [][\A h \in hist.removed :
        /\ (loops[h].pc = "fetch" /\ loops'[h] # loops[h])
             => /\ UNCHANGED <<scanResults, stored>>
                /\ loops'[h].pc = "ended"
        /\ (loops[h].pc = "save" /\ loops'[h].pc # "save")
             => ~ret'.notified /\ loops'[h].pc # "timer"]_vars

\* C26: for every scan id there is at most one closure polling it, so at most
\* one timer pending and at most one status request in flight, also when the
\* create response carries an id that is being polled already.
C26_OneLoopPerScan ==
  \A id \in ScanIds :
    /\ Cardinality({h \in LoopIds : loops[h].pc = "timer" /\ loops[h].id = id}) <= 1
    /\ Cardinality({h \in LoopIds : loops[h].pc \in {"token", "fetch"}
                                     /\ loops[h].id = id}) <= 1
    /\ Cardinality(Pollers(loops, id)) <= 1

(***************************************************************************)
(* Properties of the text functions, under TextSpec.                       *)
(***************************************************************************)
\* C23: the title is the context name, " / " and the display name of the first
\* file, followed by nothing for one file, " and 1 other file" for two and
\* " and N other files" with N = number of files - 1 for more; and for a first
\* file "project/MyContract.sol" in the project "ProjectX" the title begins
\* with "ProjectX / MyContract.sol".
C23_ScanTitle ==
  out.op = "generateScanTitle" =>
    LET n == Len(arg.files)
        context == IF arg.metadata.projectName # "" THEN arg.metadata.projectName
                   ELSE IF arg.metadata.workspaceName # "" THEN arg.metadata.workspaceName
                   ELSE "Unknown Project"
        head == context \o " / " \o out.fileName
        example == "ProjectX / MyContract.sol"
    IN  /\ n = 1 => out.value = head
        /\ n = 2 => out.value = head \o " and 1 other file"
        /\ n >= 3 => out.value = head \o " and " \o ToString(n - 1) \o " other files"
        /\ (arg.files[1].path = "project/MyContract.sol" /\ context = "ProjectX")
             => SubSeq(out.value, 1, Len(example)) = example

\* C24: the summary of a completed scan names the total number of issues and,
\* for every severity that occurs and for no other, its count, in the order
\* CRITICAL, HIGH, MEDIUM, LOW, WARN, INFORMATIONAL; the counts add up to the
\* total; and a completed scan without issues is reported as having none.
C24_CompletionSummary ==
  (out.op = "handleScanCompletion" /\ arg.status = "completed") =>
    LET total == Len(arg.result)
        parts == out.summaryParts
        rank(severity) == CHOOSE k \in 1..Len(severityOrder) : severityOrder[k] = severity
        occurs(severity) == \E i \in 1..total : arg.result[i].severity = severity
        sumTo[k \in 0..Len(parts)] == IF k = 0 THEN 0 ELSE sumTo[k - 1] + parts[k].count
        found == "Scan completed: " \o ToString(total)
                   \o (IF total = 1 THEN " issue found (" ELSE " issues found (")
    IN  /\ total = 0 <=> out.value = "Scan completed: No issues found"
        /\ total > 0 => out.value = found \o join(parts) \o ")"
        /\ \A k \in 1..Len(parts) :
             /\ occurs(parts[k].severity)
             /\ parts[k].count =
                  Cardinality({i \in 1..total : arg.result[i].severity = parts[k].severity})
        /\ \A i \in 1..total : \E k \in 1..Len(parts) : parts[k].severity = arg.result[i].severity
        /\ \A j, k \in 1..Len(parts) : j < k => rank(parts[j].severity) < rank(parts[k].severity)
        /\ sumTo[Len(parts)] = total

\* a completed scan with three issues of two severities, given out of order,
\* has been summarised
C24_Witness ==
  /\ out.op = "handleScanCompletion"
  /\ arg.status = "completed"
  /\ Len(arg.result) = 3
  /\ arg.result[1].severity = "LOW"
  /\ arg.result[2].severity = "CRITICAL"
  /\ arg.result[3].severity = "LOW"
  /\ out.value = "Scan completed: 3 issues found (1 critical, 2 low)"

(***************************************************************************)
(* activeScans, the Result Store and workspace storage, under Spec.        *)
(***************************************************************************)
\* C34: every scan id tracked in activeScans has a record in the Result Store,
\* at every suspension point.
C34_ActiveScanHasRecord ==
  \A id \in ScanIds : activeScans[id] # NoTimer => Has(scanResults, id)

\* the poll closures whose timer is pending or whose tick is executing and has
\* not yet stopped its own polling (the rest of a tick after its stopPolling,
\* in handleScanTimeout or before handleScanCompletion, is the loop ending)
AliveLoops == {h \in LoopIds : loops[h].pc \in {"timer", "token", "fetch", "save"}}

\* C35: a scan id is tracked in activeScans exactly while a poll closure of
\* that id is alive (its timer is pending or one of its ticks is executing).
C35_ActiveIffLoopAlive ==
  \A id \in ScanIds :
    activeScans[id] # NoTimer <=> \E h \in AliveLoops : loops[h].id = id

\* no insert, update or removal is between its change of the map and the end
\* of its saveScanResults()
StoreAtRest ==
  /\ sc.pc # "save" /\ rm.pc = "idle" /\ ra.pc = "idle"
  /\ \A h \in LoopIds : loops[h].pc \notin {"save", "timeoutSave"}

\* C39: when no Result Store operation is in flight and no storage write has
\* failed, workspace storage holds the records of the in-memory Result Store:
\* the same ids with the same records.
C39_StorageMirrorsStore ==
  (StoreAtRest /\ storageOk)
    => {stored[i] : i \in 1..Len(stored)}
         = {resultsToStore(scanResults)[i] : i \in 1..Len(scanResults)}

(***************************************************************************)
(* Properties of the loopback listener, under AuthSpec.                    *)
(***************************************************************************)
\* C27: the listener of an attempt serves at most one request: the step in which
\* it receives a request (on any path), its timeout or its cancellation closes
\* it, and the attempt waits for no further request.
C27_ListenerServesOnce ==
  [][\A c \in AuthCallIds :
       (authCalls[c].pc = "auth.wait" /\ authRet'.call = c)
         => /\ "close" \in Effects(authRet')
            /\ authCalls'[c].pc # "auth.wait"]_vars

\* C28: the wait for the callback is settled by the first of a request on
\* /callback, the timeout and the cancellation: a timeout or a cancellation
\* settles a pending wait with failure, and one that comes after the wait was
\* settled leaves the call where it is, sends no token request and writes
\* neither this.tokens nor globalState.
C28_FirstEventDecides ==
  [][\A c \in AuthCallIds :
       (authRet'.call = c /\ "close" \in Effects(authRet'))
         => IF authCalls[c].pc = "auth.wait"
              THEN "200" \notin Effects(authRet')
                     => /\ "authenticate:false" \in Effects(authRet')
                        /\ "post:code" \notin Effects(authRet')
              ELSE /\ authCalls[c].pc \in {"auth.exchange", "auth.save"}
                   /\ authCalls'[c] = [authCalls[c] EXCEPT !.armed = authCalls'[c].armed]
                   /\ Effects(authRet') \cap {"post:code", "update", "authenticate:false",
                                              "authenticate:true"} = {}
                   /\ authRet'.op = "none"
                   /\ tokens' = tokens
                   /\ globalState' = globalState]_vars

\* the timer of an attempt has just fired while its call was exchanging the
\* code it had received
C28_Witness ==
  /\ authRet.call # 0
  /\ "showWarningMessage" \in Effects(authRet)
  /\ authCalls[authRet.call].pc = "auth.exchange"
  /\ "timer" \notin authCalls[authRet.call].armed

\* C29: at any time at most one authentication attempt has its listener bound
\* or is waiting for its callback, however many calls of getAccessToken or
\* authenticate are in flight.
C29_AttemptsSerialized ==
  Cardinality({c \in AuthCallIds : authCalls[c].pc = "auth.wait"}) <= 1

\* C30: an attempt tries 7154 first and 47154 only after 7154 reported
\* EADDRINUSE (and then it does try it); the port it waits on is the one that
\* bound, and the browser is opened for it; when 47154 is in use too the
\* attempt fails and no browser is opened.
C30_PortOrder ==
  [][\A c \in AuthCallIds :
       LET tried == IF authCalls[c].portIndex = 0 THEN 7154 ELSE 47154
       IN  /\ (authCalls[c].pc # "auth.listen" /\ authCalls'[c].pc = "auth.listen")
                => authCalls'[c].portIndex = 0
           /\ (authCalls[c].pc = "auth.listen" /\ authRet'.call = c)
                => /\ authCalls'[c].pc = "auth.listen"
                        <=> (authCalls[c].portIndex = 0 /\ "EADDRINUSE" \in Effects(authRet'))
                   /\ authCalls'[c].pc = "auth.listen" => authCalls'[c].portIndex = 1
                   /\ authCalls'[c].pc = "auth.wait"
                        <=> "listen" \in Effects(authRet')
                   /\ authCalls'[c].pc = "auth.wait"
                        => /\ authCalls'[c].port = tried
                           /\ "openExternal" \in Effects(authRet')
                   /\ authCalls'[c].pc \notin {"auth.listen", "auth.wait"}
                        => /\ "authenticate:false" \in Effects(authRet')
                           /\ "openExternal" \notin Effects(authRet')]_vars

\* an attempt waits on the fallback port, bound after the primary was in use
C30_Witness ==
  \E c \in AuthCallIds :
    /\ authCalls[c].pc = "auth.wait"
    /\ authCalls[c].port = 47154
    /\ "EADDRINUSE" \notin Effects(authRet)
    /\ "listen" \in Effects(authRet)
    /\ authRet.call = c

(***************************************************************************)
(* Refresh, logout and the timer of the listener, under AuthSpec.          *)
(***************************************************************************)
\* the refresh request of call c gets a success response in this step, and
\* refreshAccessToken assigns this.tokens and starts its save
RefreshSucceeds(c) ==
  /\ authCalls[c].pc = "refresh.post"
  /\ authCalls'[c].pc = "refresh.save"

\* C33: a successful refresh replaces the access token and the expiry with
\* those of the response and persists the token set; the refresh token becomes
\* the response's when it supplies one and stays the previous one otherwise,
\* and the token set is not left without a refresh token.
C33_RefreshKeepsRefreshToken ==
  [][\A c \in AuthCallIds :
       RefreshSucceeds(c)
         => /\ \E data \in TokenResponses :
                  tokens' = AuthTokens(data.access_token,
                                       IF truthy(data.refresh_token)
                                         THEN data.refresh_token
                                         ELSE tokens.refreshToken,
                                       now + data.expires_in * 1000)
            /\ storageOk => globalState' = tokens'
            /\ truthy(tokens'.refreshToken)]_vars

\* C36: once logout() has completed, the token set stays absent in memory and
\* in globalState when the response of a refresh request that was in flight
\* during the logout arrives (a refresh starts only with a token set, so a
\* refresh request in flight with no token set is one a logout has overtaken).
C36_LogoutIsFinal ==
  [][\A c \in AuthCallIds :
       (/\ authCalls[c].pc = "refresh.post"
        /\ authRet'.call = c
        /\ tokens = NoTokens
        /\ globalState = NoTokens
        /\ \A d \in AuthCallIds : authCalls[d].op # "logout")
         => /\ tokens' = NoTokens
            /\ globalState' = NoTokens]_vars

\* C37: the "Authentication timed out" warning is shown only to an attempt
\* that is still waiting for its callback: the timer of an attempt that a
\* callback request or a cancellation has resolved shows nothing.
C37_TimeoutWarningOnlyWhileWaiting ==
  [][\A c \in AuthCallIds :
       (authRet'.call = c /\ "showWarningMessage" \in Effects(authRet'))
         => authCalls[c].pc = "auth.wait"]_vars

\* the configuration the getAuthorizationServer of the step finds cached: a
\* step that resumes from a discovery fetch has assigned it first
ConfigSeen == IF "discovered" \in Effects(authRet') THEN wellKnownConfig' ELSE wellKnownConfig

\* C38: only a usable discovery result is cached: an authenticate() or a
\* refreshAccessToken() fetches the discovery document exactly when no
\* document that names an authorization server is cached, so after a fetch
\* that failed or gave an empty authorization_servers list the next call
\* fetches again, and after a usable one the calls reuse it until logout()
\* or clearConfigCache().
C38_OnlyUsableDiscoveryCached ==
  [][("authenticate" \in Effects(authRet') \/ "refresh" \in Effects(authRet'))
       => ("fetch:discovery" \in Effects(authRet')
             <=> getAuthorizationServer(ConfigSeen) = "null")]_vars


(***************************************************************************)
(* The token request of an attempt against the URL the attempt opened,     *)
(* under AuthSpec.                                                         *)
(***************************************************************************)
\* the step sends the token request of call c
CodePosted(c) ==
  /\ authRet'.call = c
  /\ "post:code" \in Effects(authRet')

\* C31: the redirect_uri and the authorization server of the token request an
\* attempt sends are those of the authorization URL the same attempt opened in
\* the browser, which names the port its listener bound
C31_ExchangeMatchesAuthUrl ==
  [][\A c \in AuthCallIds :
       CodePosted(c)
         => /\ authRet'.sent.redirect_uri = authCalls[c].authUrl.redirect_uri
            /\ authRet'.sent.authServer = authCalls[c].authUrl.authServer
            /\ authCalls[c].authUrl.redirect_uri = getRedirectUri(authCalls[c].port)
            /\ authCalls[c].port \in {CALLBACK_PORTS[i] : i \in 1..Len(CALLBACK_PORTS)}
            /\ authCalls[c].authUrl.path = "/oauth/authorize"
            /\ authRet'.sent.path = "/oauth/token"]_vars

\* a token request sent by an attempt that bound the fallback port
C31_Witness ==
  /\ "post:code" \in Effects(authRet)
  /\ authRet.sent.redirect_uri = "http://localhost:47154/callback"
  /\ authRet.sent.authServer = "https://as1"

\* RFC 7636, 4.2: BASE64URL-ENCODE(SHA256(ASCII(code_verifier))), for the
\* verifiers of the call slots
S256 ==
  [c \in AuthCallIds |-> base64url(sha256(utf8(base64url(randomBytes(32, c)))))]

\* C32: the code_challenge of the authorization URL an attempt opened is the
\* base64url SHA-256 digest of the code_verifier the same attempt sends in its
\* token request, and the verifier encodes 32 random bytes (43 characters); for
\* the verifier of RFC 7636, Appendix B, the challenge is the one given there
C32_ChallengeIsDigestOfVerifier ==
  [][\A c \in AuthCallIds :
       CodePosted(c)
         => /\ authRet'.sent.code_verifier = base64url(randomBytes(32, c))
            /\ Len(authRet'.sent.code_verifier) = 43
            /\ authCalls[c].authUrl.code_challenge = S256[c]
            /\ authCalls[c].authUrl.code_challenge_method = "S256"
            /\ (authRet'.sent.code_verifier = "dBjftJeZ4CVP-mB92K27uhbUJU1p1r_wW1gFWFOEjXk"
                  => authCalls[c].authUrl.code_challenge
                       = "E9Melhoa2OwvFrEMTJguCHaoeK1t8URWbuGJSstw-cM")]_vars

\* the second call slot sends its token request while the first attempt, with
\* the verifier of the RFC, is still waiting at its listener
C32_Witness ==
  /\ "post:code" \in Effects(authRet)
  /\ authRet.call = 2
  /\ authRet.sent.code_verifier = "VWBrdoGMl6KtuMPO2eTv-gUQGyYxPEdSXWhzfomUn6o"
  /\ authCalls[2].authUrl.code_challenge = "b5K5sPZz-vxNW1XO7o0WxnTNo_KcOTjpUW3WJnyYUjs"
  /\ authCalls[1].pc = "auth.wait"
  /\ authCalls[1].authUrl.code_challenge = "E9Melhoa2OwvFrEMTJguCHaoeK1t8URWbuGJSstw-cM"


(***************************************************************************)
(* Termination of authenticate(), under AttemptSpec.                       *)
(***************************************************************************)
\* the step takes call c away from its open listener
LeavesListener(c) ==
  /\ authCalls[c].pc = "auth.wait"
  /\ authCalls'[c].pc # "auth.wait"

\* C40: every call of authenticate() returns true or false in the end, whatever
\* requests its listener receives, and the step in which the call stops waiting
\* at the listener it bound (at the latest the step in which it returns) closes
\* that listener
C40_AuthenticateTerminates ==
  /\ \A c \in AuthCallIds :
        (authCalls[c].op = "authenticate")
          ~> (/\ authRet.call = c
              /\ authRet.op = "authenticate"
              /\ authRet.value \in {"true", "false"}
              /\ authCalls[c].op = "none")
  /\ [][\A c \in AuthCallIds :
          /\ LeavesListener(c) => "close" \in Effects(authRet')
          /\ (authCalls[c].op = "authenticate" /\ authCalls'[c].op = "none")
               => (authCalls[c].pc = "auth.wait" => "close" \in Effects(authRet'))]_vars

\* an attempt returns false in the step in which its timer fires and closes its
\* listener, while another attempt still waits at its own listener
C40_Witness ==
  /\ authRet.op = "authenticate"
  /\ authRet.value = "false"
  /\ "showWarningMessage" \in Effects(authRet)
  /\ "close" \in Effects(authRet)
  /\ \E c \in AuthCallIds : authCalls[c].pc = "auth.wait"

=============================================================================
